---- MODULE Spec2Model ----
(***************************************************************************)
(* Bootstrap and configuration lifecycle of the library configuration      *)
(* front-end: the document store, DatabaseInitializer (initialization.ts), *)
(* the InitializationPanel and the SystemInitializer phase router.         *)
(*                                                                         *)
(* The document store is a function from document keys <<collection, id>>  *)
(* to documents; a key outside its domain is a document that does not      *)
(* exist.  Every store call of the code is one step: it either succeeds    *)
(* or fails (transport failure), and other sessions run between the calls. *)
(***************************************************************************)
EXTENDS Naturals, FiniteSets, Sequences, TLC

VARIABLES
    store,      \* the external document store
    upd,        \* per session: the updateOrgSettings / updateAppSettings call
    got,        \* per session: the last getOrgSettings / getAppSettings call
    calls,      \* per session: how many update calls it has started
    accounts,   \* the auth provider's accounts (uids)
    currentUser,\* per session: auth.currentUser, the provider's session
    authCb,     \* per session: an onAuthStateChanged notification is pending
    auth,       \* per session: the state of SystemInitializer's useAuth()
    router,     \* per session: SystemInitializer's systemState and error
    probes,     \* per session: the checkSystemState calls in flight, oldest first
    panel,      \* per session: the mounted InitializationPanel's state
    check,      \* per session: a checkInitializationStatus call is in flight
    initCall,   \* per session: the panel's initializeDatabase call
    page,       \* per session: the pathname the browser tab shows
    nav,        \* per session: the pending router.push, or NoNav
    form,       \* per session: the ConfigurationPanel's form and save state
    signing,    \* per session: the useAuth() of the LoginPage / AuthHeader
    appForm,    \* per session: the AdvancedSettingsPanel's save state
    profile,    \* per session: the UserProfilePage's state
    loginPage,  \* per session: the useAuth() of the mounted LoginPage
    env,        \* the build's NEXT_PUBLIC_CLOUDINARY_* variables
    upload,     \* per session: the useCloudinaryUpload() hook and its calls in flight
    authHook,   \* per session: a useAuth() hook with every operation it returns
    timeInput   \* per session: a TimeInput of the form and the last schema check

settingsVars == <<upd, got, calls>>
authVars == <<accounts, currentUser, authCb, auth>>
bootVars == <<router, probes, panel, check, initCall, page, nav>>
uiVars == <<form, signing, appForm, profile>>
hookVars == <<env, upload, authHook, timeInput>>
vars == <<store, upd, got, calls, accounts, currentUser, authCb, auth, router,
          probes, panel, check, initCall, page, nav, form, signing, appForm,
          profile, loginPage, env, upload, authHook, timeInput>>

\* each session starts at most MaxUpdates update calls
MaxUpdates == 1

Sessions == {"s1", "s2"}

(***************************************************************************)
(* Documents                                                               *)
(***************************************************************************)
NoData == [none |-> TRUE]

defaultAppSettings ==
    [AppVersion |-> 1, DefaultLoanDuration |-> 21, GlobalLimits |-> 5,
     MaintenanceMode |-> TRUE]

defaultNotificationSettings ==
    [ActiveNotificationTypes |-> <<"email", "sms", "whatsapp">>,
     notificationDelays |-> [overDueReminder |-> 1, reminderBeforeDue |-> 3],
     predefinedMessages |->
        [overdue |-> "Your borrowed book is overdue. Please return it as soon as possible.",
         reminder |-> "Don't forget to return your book on time!",
         reservationReady |-> "Your reserved book is now available for pickup."]]

WeekdayHours == "{\"open\": \"08:00\", \"close\": \"18:00\"}"
SaturdayHours == "{\"open\": \"10:00\", \"close\": \"18:00\"}"
ClosedHours == "{\"open\": \"closed\", \"close\": \"closed\"}"

defaultOrgSettings ==
    [Address |-> "",
     Contact |-> [Email |-> "", Facebook |-> "", Instagram |-> "",
                  Phone |-> "+237 123456789", WhatsApp |-> "+237 123456789"],
     LateReturnPenalties |-> <<"">>,
     Logo |-> "",
     MaximumSimultaneousLoans |-> 3,
     Name |-> "",
     OpeningHours |->
        [Monday |-> WeekdayHours, Tuesday |-> WeekdayHours,
         Wednesday |-> WeekdayHours, Thursday |-> WeekdayHours,
         Friday |-> WeekdayHours, Saturday |-> SaturdayHours,
         Sunday |-> ClosedHours],
     SpecificBorrowingRules |-> <<"">>,
     Theme |-> [Primary |-> "", Secondary |-> ""]]

OrgKey == <<"Configuration", "OrgSettings">>
AppKey == <<"Configuration", "AppSettings">>
NotificationsKey == <<"Configuration", "Notifications">>
InitKey == <<"Configuration", "initialized">>

\* a bug: both settings documents share one document reference
SettingsKeyShared(which) == OrgKey

SettingsKey(which) == IF which = "org" THEN OrgKey ELSE AppKey
DefaultOf(which) == IF which = "org" THEN defaultOrgSettings ELSE defaultAppSettings

(***************************************************************************)
(* The store's own operations: getDoc (a snapshot) and setDoc (overwrite). *)
(***************************************************************************)
Exists(st, key) == key \in DOMAIN st

GetDoc(st, key) ==
    IF Exists(st, key) THEN [exists |-> TRUE, data |-> st[key]]
    ELSE [exists |-> FALSE, data |-> NoData]

SetDoc(st, key, data) ==
    [k \in DOMAIN st \cup {key} |-> IF k = key THEN data ELSE st[k]]

(***************************************************************************)
(* { ...a, ...b }: the object spread of two objects.                       *)
(***************************************************************************)
Spread(a, b) ==
    [k \in DOMAIN a \cup DOMAIN b |-> IF k \in DOMAIN b THEN b[k] ELSE a[k]]

(***************************************************************************)
(* Inputs of the settings API: Partial<OrgSettings>, Partial<AppSettings>. *)
(***************************************************************************)
FullContact ==
    [Email |-> "x@y.com", Phone |-> "1", WhatsApp |-> "", Facebook |-> "",
     Instagram |-> ""]

OrgPartials ==
    { [Name |-> "Central Library", Contact |-> FullContact],
      [Theme |-> [Primary |-> "#FF0000"]],
      [Theme |-> [Primary |-> "#000000", Secondary |-> "#FFFFFF"]] }

AppPartials ==
    { [MaintenanceMode |-> FALSE],
      [DefaultLoanDuration |-> 14, GlobalLimits |-> 10] }

PartialsOf(which) == IF which = "org" THEN OrgPartials ELSE AppPartials

(***************************************************************************)
(* DatabaseInitializer.updateOrgSettings / updateAppSettings               *)
(*   currentDoc = await getDoc(ref)                                        *)
(*   exists ? setDoc(ref, {...currentData, ...settings})                   *)
(*          : setDoc(ref, {...default, ...settings})                       *)
(* Any failure is rethrown as 'Failed to update ... settings'.             *)
(***************************************************************************)
\* a bug: the stored document is ignored and the defaults are merged instead
UpdatedDataFromDefault(currentDoc, settings, default) ==
    Spread(default, settings)

\* a bug (or a fix): nested objects are merged field by field
UpdatedDataDeep(currentDoc, settings, default) ==
    LET cur == IF currentDoc.exists THEN currentDoc.data ELSE default IN
    [k \in DOMAIN cur \cup DOMAIN settings |->
        IF k \notin DOMAIN settings THEN cur[k]
        ELSE IF k \in {"Contact", "Theme", "OpeningHours"} /\ k \in DOMAIN cur
             THEN Spread(cur[k], settings[k])
             ELSE settings[k]]

\* a bug: the spread is the wrong way round, the stored fields win
UpdatedDataKeepCurrent(currentDoc, settings, default) ==
    IF currentDoc.exists THEN Spread(settings, currentDoc.data)
    ELSE Spread(settings, default)

UpdatedData(currentDoc, settings, default) ==
    IF currentDoc.exists THEN Spread(currentDoc.data, settings)
    ELSE Spread(default, settings)

UpdateError(which) ==
    IF which = "org" THEN "Failed to update organization settings"
    ELSE "Failed to update app settings"

IdleUpdate ==
    [pc |-> "idle", which |-> "org", settings |-> NoData,
     currentDoc |-> [exists |-> FALSE, data |-> NoData],
     error |-> "", overlapped |-> FALSE]

\* the call starts and its getDoc resolves
UpdateRead(s, which, settings) ==
    /\ upd[s].pc \in {"idle", "done", "failed"}
    /\ calls[s] < MaxUpdates
    /\ calls' = [calls EXCEPT ![s] = @ + 1]
    /\ LET cur == GetDoc(store, SettingsKey(which)) IN
       upd' = [upd EXCEPT ![s] =
                 [pc |-> "write", which |-> which, settings |-> settings,
                  currentDoc |-> cur,
                  error |-> "", overlapped |-> FALSE]]
    /\ got' = [got EXCEPT ![s] = [status |-> "none", which |-> which, value |-> NoData, error |-> ""]]
    /\ UNCHANGED <<store, authVars, bootVars, uiVars, loginPage, hookVars>>

\* the call starts and its getDoc fails
UpdateReadFails(s, which, settings) ==
    /\ upd[s].pc \in {"idle", "done", "failed"}
    /\ calls[s] < MaxUpdates
    /\ calls' = [calls EXCEPT ![s] = @ + 1]
    /\ upd' = [upd EXCEPT ![s] =
                 [IdleUpdate EXCEPT !.pc = "failed", !.which = which,
                                    !.settings = settings,
                                    !.error = UpdateError(which)]]
    /\ UNCHANGED <<store, got, authVars, bootVars, uiVars, loginPage, hookVars>>

\* every other call in flight on the same document has now been overlapped
MarkOverlapped(u, s, key) ==
    [t \in Sessions |->
        IF t # s /\ u[t].pc \in {"write", "done"} /\ SettingsKey(u[t].which) = key
        THEN [u[t] EXCEPT !.overlapped = TRUE] ELSE u[t]]

\* a bug (or a fix): the write merges into the document as stored now
PendingDataFresh(u) ==
    UpdatedData(GetDoc(store, SettingsKey(u.which)), u.settings, DefaultOf(u.which))

\* the document the call in flight writes
PendingData(u) ==
    UpdatedData(u.currentDoc, u.settings, DefaultOf(u.which))

\* the setDoc resolves: the whole document is overwritten
UpdateWrite(s) ==
    /\ upd[s].pc = "write"
    /\ store' = SetDoc(store, SettingsKey(upd[s].which), PendingData(upd[s]))
    /\ upd' = MarkOverlapped([upd EXCEPT ![s].pc = "done"], s, SettingsKey(upd[s].which))
    /\ got' = [got EXCEPT ![s] = [status |-> "none", which |-> upd[s].which, value |-> NoData, error |-> ""]]
    /\ UNCHANGED <<calls, authVars, bootVars, uiVars, loginPage, hookVars>>

\* the setDoc fails
UpdateWriteFails(s) ==
    /\ upd[s].pc = "write"
    /\ upd' = [upd EXCEPT ![s].pc = "failed", ![s].error = UpdateError(upd[s].which)]
    /\ UNCHANGED <<store, got, calls, authVars, bootVars, uiVars, loginPage, hookVars>>

(***************************************************************************)
(* DatabaseInitializer.getOrgSettings / getAppSettings                     *)
(***************************************************************************)
\* a bug: an absent document is not answered with the default
SettingsOfStrict(docSnap, default) == docSnap.data

SettingsOf(docSnap, default) ==
    IF docSnap.exists THEN docSnap.data ELSE default

FetchError(which) ==
    IF which = "org" THEN "Failed to fetch organization settings"
    ELSE "Failed to fetch app settings"

GetSettings(s, which) ==
    /\ got' = [got EXCEPT ![s] =
                 [status |-> "ok", which |-> which,
                  value |-> SettingsOf(GetDoc(store, SettingsKey(which)), DefaultOf(which)),
                  error |-> ""]]
    /\ UNCHANGED <<store, upd, calls, authVars, bootVars, uiVars, loginPage, hookVars>>

GetSettingsFails(s, which) ==
    /\ got' = [got EXCEPT ![s] =
                 [status |-> "failed", which |-> which, value |-> NoData,
                  error |-> FetchError(which)]]
    /\ UNCHANGED <<store, upd, calls, authVars, bootVars, uiVars, loginPage, hookVars>>

(***************************************************************************)
(* DatabaseInitializer.checkIfInitialized: a failed read is caught and     *)
(* answered with false.                                                    *)
(***************************************************************************)
checkIfInitialized(st, readOk) ==
    IF readOk THEN Exists(st, InitKey) ELSE FALSE

(***************************************************************************)
(* DatabaseInitializer.initializeDatabase: one writeBatch with the         *)
(* administrator document, the three settings documents, the marker and a  *)
(* placeholder per collection, then batch.commit().                        *)
(***************************************************************************)
ServerTimestamp == "serverTimestamp"

collectionsToCreate ==
    <<"BiblioAdmin", "BiblioBooks", "BiblioThesis", "BiblioUser",
      "Configuration", "Departements", "OnlineCourses", "admin">>

\* the form's inputs: adminSchema accepts them (name of 2+ characters)
Admins ==
    { [name |-> "Ada", email |-> "a@b.com"],
      [name |-> "Bob", email |-> "b@b.com"] }

\* a bug: the document gets a generated id
AdminRefGenerated(st, adminData) ==
    <<"admin", CHOOSE id \in {"auto1", "auto2", "auto3", "auto4"} :
                    <<"admin", id>> \notin DOMAIN st>>

\* doc(db, 'admin', adminData.email): the document is keyed by the email
AdminRef(st, adminData) == <<"admin", adminData.email>>

\* a bug: the caller's fields are spread last
AdminDocumentAsGiven(adminData) ==
    Spread([role |-> "super_admin", createdAt |-> ServerTimestamp], adminData)

\* { ...adminData, role: 'super_admin', createdAt: serverTimestamp() }
AdminDocument(adminData) ==
    Spread(adminData, [role |-> "super_admin", createdAt |-> ServerTimestamp])

InitMarker(adminData) ==
    [initialized |-> TRUE, initializedAt |-> ServerTimestamp,
     initializedBy |-> adminData.email, version |-> "1.0.0"]

\* a bug: the loop does not skip the two collections written above
IsBusinessCollectionAll(c) == TRUE

\* collectionName !== 'Configuration' && collectionName !== 'admin'
IsBusinessCollection(c) == c # "Configuration" /\ c # "admin"

PlaceholderWrites ==
    LET cols == SelectSeq(collectionsToCreate, IsBusinessCollection) IN
    [i \in 1..Len(cols) |->
        [key |-> <<cols[i], "_placeholder">>,
         data |-> [_placeholder |-> TRUE, createdAt |-> ServerTimestamp,
                   note |-> "Collection " \o cols[i] \o " initialized"]]]

InitBatch(st, adminData) ==
    << [key |-> AdminRef(st, adminData), data |-> AdminDocument(adminData)],
       [key |-> AppKey, data |-> defaultAppSettings],
       [key |-> NotificationsKey, data |-> defaultNotificationSettings],
       [key |-> OrgKey, data |-> defaultOrgSettings],
       [key |-> InitKey, data |-> InitMarker(adminData)] >>
    \o PlaceholderWrites

RECURSIVE ApplyWrites(_, _)
ApplyWrites(st, writes) ==
    IF writes = <<>> THEN st
    ELSE ApplyWrites(SetDoc(st, Head(writes).key, Head(writes).data), Tail(writes))

\* batch.commit() resolved: every write of the batch is applied
CommitBatch(st, writes) == ApplyWrites(st, writes)

\* a bug: the marker is written on its own, before the batch
FailedCommitMarkerOnly(st, writes) ==
    ApplyWrites(st, SelectSeq(writes, LAMBDA w : w.key = InitKey))

\* batch.commit() rejected: no write of the batch is applied
FailedCommit(st, writes) == st

InitError == "Failed to initialize database"

(***************************************************************************)
(* middleware: every page request passes through it.  A pathname is the    *)
(* sequence of its segments ("/" is the empty sequence).                   *)
(***************************************************************************)
RootPath == <<>>
DashboardPath == <<"dashboard">>
NoNav == <<"(none)">>

\* pathname.includes('.')
IncludesDot(pathname) ==
    \E i \in 1..Len(pathname) : pathname[i] \in {"favicon.ico", "logo.png"}

\* pathname.startsWith('/' + segment)
StartsWith(pathname, segment) == pathname # <<>> /\ pathname[1] = segment

publicRoutes == {RootPath, <<"login">>, <<"setup">>}

\* the pathname the browser ends on: NextResponse.next() keeps the requested
\* one, NextResponse.redirect(new URL('/', request.url)) replaces it by "/"
middleware(pathname) ==
    IF \/ StartsWith(pathname, "api") \/ StartsWith(pathname, "_next")
       \/ StartsWith(pathname, "favicon.ico") \/ IncludesDot(pathname)
    THEN pathname
    ELSE IF pathname \in publicRoutes THEN pathname
    ELSE IF \/ StartsWith(pathname, "dashboard") \/ StartsWith(pathname, "admin")
            \/ StartsWith(pathname, "configuration") \/ StartsWith(pathname, "profile")
    THEN RootPath
    ELSE pathname

(***************************************************************************)
(* SystemInitializer (the phase router) and what it renders.               *)
(***************************************************************************)
Null == "null"
ProbeErrorMessage == "Erreur lors de la vérification du système"

\* a bound: checkSystemState calls in flight in one session
MaxProbes == 2

\* a bug: the error screen is shown whenever a message is set
RenderedByMessage(r, a) ==
    IF a.isLoading \/ r.systemState = "loading" THEN "LoadingScreen"
    ELSE IF r.error # Null THEN "ErrorScreen"
    ELSE CASE r.systemState = "needs-initialization" -> "InitializationPanel"
           [] r.systemState = "needs-authentication" -> "LoginPage"
           [] r.systemState = "needs-configuration" -> "ConfigurationPanel"
           [] r.systemState = "ready" -> "DashboardRedirect"
           [] OTHER -> "DefaultLoader"

Rendered(r, a) ==
    IF a.isLoading \/ r.systemState = "loading" THEN "LoadingScreen"
    ELSE IF r.systemState = "error" /\ r.error # Null THEN "ErrorScreen"
    ELSE CASE r.systemState = "needs-initialization" -> "InitializationPanel"
           [] r.systemState = "needs-authentication" -> "LoginPage"
           [] r.systemState = "needs-configuration" -> "ConfigurationPanel"
           [] r.systemState = "ready" -> "DashboardRedirect"
           [] OTHER -> "DefaultLoader"

Unmounted == [currentStep |-> "unmounted", isLoading |-> FALSE, error |-> Null]
FreshPanel == [currentStep |-> "check", isLoading |-> TRUE, error |-> Null]

\* a checkSystemState call in flight; overtaken records that a call started
\* after it has already resolved
NewProbe(isAuthenticated) ==
    [pc |-> "marker", isAuthenticated |-> isAuthenticated, overtaken |-> FALSE]

\* useEffect(..., [authLoading, isAuthenticated]): runs after a render in which
\* one of the two changed, and probes unless auth is still loading
EffectFires(a, a2) ==
    /\ <<a.isLoading, a.isAuthenticated>> # <<a2.isLoading, a2.isAuthenticated>>
    /\ ~a2.isLoading

\* the useAuth() of a LoginPage: not mounted, and just mounted (the listener it
\* registers is notified of the provider's current user)
NoLoginPage == [isAuthenticated |-> FALSE, listen |-> FALSE]
FreshLoginPage == [isAuthenticated |-> FALSE, listen |-> TRUE]

\* a bug: the LoginPage has no redirect effect
LoginPageEffectNever(s, r3, a2, lp2) == FALSE

\* LoginPage's useEffect(..., [isAuthenticated, router, redirectTo,
\* onLoginSuccess]): it runs after a render in which the page's isAuthenticated
\* changed or SystemInitializer passed a new handleLoginSuccess (every render of
\* SystemInitializer makes one), and calls onLoginSuccess when authenticated
LoginPageEffectFires(s, r3, a2, lp2) ==
    /\ lp2.isAuthenticated
    /\ \/ ~loginPage[s].isAuthenticated
       \/ r3 # router[s]
       \/ a2 # auth[s]

\* The session's components after a handler has set router state r2, auth state
\* a2, probes ps2, panel state p2 (c2: a panel check is in flight) and login
\* page state lp2: the effect of SystemInitializer runs, the InitializationPanel
\* and the LoginPage are mounted or unmounted as the render decides (the
\* panel's mount effect starts checkInitializationStatus), and the effect of a
\* LoginPage that stays mounted runs.  The checkSystemState calls one render
\* starts (same closure, same moment) are kept as one entry of probes.
Settle(s, r2, a2, ps2, p2, c2, lp2) ==
    LET fires == EffectFires(auth[s], a2)
        r3 == IF fires THEN [r2 EXCEPT !.error = Null] ELSE r2
        ps3 == IF fires THEN Append(ps2, NewProbe(a2.isAuthenticated)) ELSE ps2
        was == Rendered(router[s], auth[s]) = "InitializationPanel"
        now == Rendered(r3, a2) = "InitializationPanel"
        lpWas == Rendered(router[s], auth[s]) = "LoginPage"
        lpNow == Rendered(r3, a2) = "LoginPage"
        redirects == lpWas /\ lpNow /\ LoginPageEffectFires(s, r3, a2, lp2)
        r4 == IF redirects THEN [r3 EXCEPT !.error = Null] ELSE r3
        ps4 == IF redirects /\ Len(ps3) <= Len(probes[s])
               THEN Append(ps3, NewProbe(a2.isAuthenticated)) ELSE ps3
    IN  /\ Len(ps4) <= MaxProbes
        /\ router' = [router EXCEPT ![s] = r4]
        /\ auth' = [auth EXCEPT ![s] = a2]
        /\ probes' = [probes EXCEPT ![s] = ps4]
        /\ UNCHANGED hookVars
        /\ loginPage' = [loginPage EXCEPT ![s] =
                            IF lpNow /\ ~lpWas THEN FreshLoginPage
                            ELSE IF ~lpNow THEN NoLoginPage ELSE lp2]
        /\ panel' = [panel EXCEPT ![s] =
                        IF now /\ ~was THEN FreshPanel
                        ELSE IF ~now THEN Unmounted ELSE p2]
        /\ check' = [check EXCEPT ![s] = IF now /\ ~was THEN TRUE ELSE c2]
        /\ nav' = [nav EXCEPT ![s] =
                      IF Rendered(r3, a2) = "DashboardRedirect" THEN DashboardPath
                      ELSE @]
        /\ page' = page

RemoveAt(seq, i) == SubSeq(seq, 1, i - 1) \o SubSeq(seq, i + 1, Len(seq))

\* call i of the calls in flight (in the order they were started) resolves
Resolved(ps, i) ==
    RemoveAt([k \in 1..Len(ps) |-> IF k < i THEN [ps[k] EXCEPT !.overtaken = TRUE]
                                   ELSE ps[k]], i)

(***************************************************************************)
(* checkSystemState: setError(null); await checkIfInitialized(); the       *)
(* closure's isAuthenticated; await getOrgSettings(); isConfigured.        *)
(***************************************************************************)
Truthy(obj, field) == field \in DOMAIN obj /\ obj[field] # ""

isConfigured(orgSettings) ==
    Truthy(orgSettings, "Name") /\ Truthy(orgSettings.Contact, "Email")

\* a bug: the session is checked before the marker
AfterMarkerAuthFirst(isInitialized, isAuthenticated) ==
    IF ~isAuthenticated THEN "needs-authentication"
    ELSE IF ~isInitialized THEN "needs-initialization"
    ELSE "continue"

\* the state the call sets once checkIfInitialized has answered, or "continue"
\* when it goes on to getOrgSettings
AfterMarker(isInitialized, isAuthenticated) ==
    IF ~isInitialized THEN "needs-initialization"
    ELSE IF ~isAuthenticated THEN "needs-authentication"
    ELSE "continue"

AfterOrg(orgSettings) ==
    IF ~isConfigured(orgSettings) THEN "needs-configuration" ELSE "ready"

\* a call from a handler (the retry button, handleLoginSuccess)
StartProbe(r, ps, isAuthenticated) ==
    [router |-> [r EXCEPT !.error = Null],
     probes |-> Append(ps, NewProbe(isAuthenticated))]

\* the awaited checkIfInitialized() of probe i answers
ProbeMarker(s, i, readOk) ==
    /\ i \in 1..Len(probes[s])
    /\ probes[s][i].pc = "marker"
    /\ LET p == probes[s][i]
           next == AfterMarker(checkIfInitialized(store, readOk), p.isAuthenticated)
       IN IF next = "continue"
          THEN Settle(s, router[s], auth[s],
                      [probes[s] EXCEPT ![i].pc = "org"], panel[s], check[s], loginPage[s])
          ELSE Settle(s, [router[s] EXCEPT !.systemState = next], auth[s],
                      Resolved(probes[s], i), panel[s], check[s], loginPage[s])
    /\ UNCHANGED <<store, settingsVars, accounts, currentUser, authCb, initCall, uiVars>>

\* the awaited getOrgSettings() of probe i answers
ProbeOrg(s, i) ==
    /\ i \in 1..Len(probes[s])
    /\ probes[s][i].pc = "org"
    /\ LET orgSettings == SettingsOf(GetDoc(store, OrgKey), defaultOrgSettings) IN
       Settle(s, [router[s] EXCEPT !.systemState = AfterOrg(orgSettings)], auth[s],
              Resolved(probes[s], i), panel[s], check[s], loginPage[s])
    /\ UNCHANGED <<store, settingsVars, accounts, currentUser, authCb, initCall, uiVars>>

\* the awaited getOrgSettings() of probe i throws: the catch block
ProbeOrgFails(s, i) ==
    /\ i \in 1..Len(probes[s])
    /\ probes[s][i].pc = "org"
    /\ Settle(s, [systemState |-> "error", error |-> ProbeErrorMessage], auth[s],
              Resolved(probes[s], i), panel[s], check[s], loginPage[s])
    /\ UNCHANGED <<store, settingsVars, accounts, currentUser, authCb, initCall, uiVars>>

\* the error screen's retry button
Retry(s) ==
    /\ Rendered(router[s], auth[s]) = "ErrorScreen"
    /\ LET st == StartProbe(router[s], probes[s], auth[s].isAuthenticated) IN
       Settle(s, st.router, auth[s], st.probes, panel[s], check[s], loginPage[s])
    /\ UNCHANGED <<store, settingsVars, accounts, currentUser, authCb, initCall, uiVars>>

\* router.push('/dashboard') is carried out: the request passes the middleware,
\* and the tab shows the pathname the middleware answers.  The answer "/" is
\* the page the tab is on, so the mounted SystemInitializer keeps its state.
Navigate(s) ==
    /\ nav[s] # NoNav
    /\ page' = [page EXCEPT ![s] = middleware(nav[s])]
    /\ nav' = [nav EXCEPT ![s] = NoNav]
    /\ UNCHANGED <<store, settingsVars, authVars, router, probes, panel, check, initCall,
                   uiVars, loginPage, hookVars>>

(***************************************************************************)
(* InitializationPanel                                                     *)
(***************************************************************************)
IdleInit ==
    [pc |-> "idle", adminData |-> NoData, result |-> "none", error |-> "",
     notified |-> "none"]

\* handleInitializationComplete, the panel's onComplete
handleInitializationComplete(r) == [r EXCEPT !.systemState = "needs-authentication"]

IfMounted(p, p2) == IF p.currentStep = "unmounted" THEN p ELSE p2

\* a bug: the catch block forgets to go back to the form
PanelAfterInitFailureStuck(p) ==
    [p EXCEPT !.isLoading = FALSE,
              !.error = "Erreur lors de l'initialisation de la base de données"]

\* the catch block of the panel's initializeDatabase
PanelAfterInitFailure(p) ==
    [currentStep |-> "admin-setup", isLoading |-> FALSE,
     error |-> "Erreur lors de l'initialisation de la base de données"]

\* checkInitializationStatus: the awaited checkIfInitialized() answers
CheckResolves(s, readOk) ==
    /\ check[s]
    /\ IF checkIfInitialized(store, readOk)
       THEN Settle(s, handleInitializationComplete(router[s]), auth[s], probes[s],
                   IfMounted(panel[s], [panel[s] EXCEPT !.currentStep = "configuration",
                                                        !.isLoading = FALSE]),
                   FALSE, loginPage[s])
       ELSE Settle(s, router[s], auth[s], probes[s],
                   IfMounted(panel[s], [panel[s] EXCEPT !.currentStep = "admin-setup",
                                                        !.isLoading = FALSE]),
                   FALSE, loginPage[s])
    /\ UNCHANGED <<store, settingsVars, accounts, currentUser, authCb, initCall, uiVars>>

\* handleAdminSetup: the form is submitted and initializeDatabase starts
SubmitAdmin(s, adminData) ==
    /\ panel[s].currentStep = "admin-setup"
    /\ ~panel[s].isLoading
    /\ initCall[s].pc = "idle"
    /\ panel' = [panel EXCEPT ![s] =
                    [currentStep |-> "database-init", isLoading |-> TRUE, error |-> Null]]
    /\ initCall' = [initCall EXCEPT ![s] =
                    [pc |-> "commit", adminData |-> adminData, result |-> "none",
                     error |-> "", notified |-> "none"]]
    /\ UNCHANGED <<store, settingsVars, authVars, router, probes, check, page, nav, uiVars, loginPage, hookVars>>

\* batch.commit() resolves: the success notification, and the 2 s timer starts
CommitOk(s) ==
    /\ initCall[s].pc = "commit"
    /\ store' = CommitBatch(store, InitBatch(store, initCall[s].adminData))
    /\ initCall' = [initCall EXCEPT ![s].pc = "timer", ![s].result = "ok",
                                    ![s].notified = "success"]
    /\ UNCHANGED <<settingsVars, authVars, router, probes, panel, check, page, nav, uiVars, loginPage, hookVars>>

\* batch.commit() rejects: the catch blocks of initializeDatabase and of the panel
CommitFails(s) ==
    /\ initCall[s].pc = "commit"
    /\ store' = FailedCommit(store, InitBatch(store, initCall[s].adminData))
    /\ initCall' = [initCall EXCEPT ![s].pc = "idle", ![s].result = "failed",
                                    ![s].error = InitError,
                                    ![s].notified = "error"]
    /\ panel' = [panel EXCEPT ![s] =
                    IfMounted(@, PanelAfterInitFailure(@))]
    /\ UNCHANGED <<settingsVars, authVars, router, probes, check, page, nav, uiVars, loginPage, hookVars>>

\* the timer set after a successful commit fires: onComplete
InitTimer(s) ==
    /\ initCall[s].pc = "timer"
    /\ initCall' = [initCall EXCEPT ![s].pc = "idle"]
    /\ Settle(s, handleInitializationComplete(router[s]), auth[s], probes[s],
              IfMounted(panel[s], [panel[s] EXCEPT !.currentStep = "configuration",
                                                   !.isLoading = FALSE]),
              check[s], loginPage[s])
    /\ UNCHANGED <<store, settingsVars, accounts, currentUser, authCb, uiVars>>

(***************************************************************************)
(* The auth provider, AdminAuth and the onAuthStateChanged listener of     *)
(* SystemInitializer's useAuth().                                          *)
(***************************************************************************)
NoUser == "none"

\* the useAuth() state of the component whose button signs in or out
IdleSigning == [pc |-> "idle", isLoading |-> FALSE, notified |-> "none"]

AuthAdmin == [uid |-> "u1", email |-> "a@b.com", name |-> "Ada"]
AdminAuthKey(uid) == <<"SuperAdmin", uid>>

\* the provider's user changes: the listener of a mounted LoginPage is notified
ProviderNotifies(s) ==
    [loginPage EXCEPT ![s].listen = @ \/ Rendered(router[s], auth[s]) = "LoginPage"]

\* AdminAuth.createAdminAccount: the provider creates the account and signs it
\* in, then the administrator document is written (docOk: that write succeeds)
CreateAdminAccount(s, docOk) ==
    /\ AuthAdmin.uid \notin accounts
    /\ accounts' = accounts \cup {AuthAdmin.uid}
    /\ currentUser' = [currentUser EXCEPT ![s] = AuthAdmin.uid]
    /\ authCb' = [authCb EXCEPT ![s] = TRUE]
    /\ store' = IF docOk
                THEN SetDoc(store, AdminAuthKey(AuthAdmin.uid),
                            [email |-> AuthAdmin.email, name |-> AuthAdmin.name,
                             role |-> "super_admin", createdAt |-> "now"])
                ELSE store
    /\ loginPage' = ProviderNotifies(s)
    /\ UNCHANGED <<settingsVars, auth, bootVars, uiVars, hookVars>>

\* AdminAuth.getCurrentAdmin: null without a provider user, without the
\* administrator document, or when the read fails
getCurrentAdmin(st, user, readOk) ==
    user # NoUser /\ readOk /\ Exists(st, AdminAuthKey(user))

\* the onAuthStateChanged callback, with the provider's current user
AuthCallback(s, readOk) ==
    /\ authCb[s]
    /\ LET user == currentUser[s]
           found == getCurrentAdmin(store, user, readOk)
           signsOut == user # NoUser /\ ~found
       IN /\ currentUser' = [currentUser EXCEPT ![s] = IF signsOut THEN NoUser ELSE user]
          /\ authCb' = [authCb EXCEPT ![s] = signsOut]
          /\ Settle(s, router[s], [isLoading |-> FALSE, isAuthenticated |-> found],
                    probes[s], panel[s], check[s], loginPage[s])
    /\ UNCHANGED <<store, settingsVars, accounts, initCall, uiVars>>

\* the onAuthStateChanged callback of the LoginPage's useAuth(), with the
\* provider's current user; when the page becomes authenticated its effect
\* calls onLoginSuccess
LoginPageCallback(s, readOk) ==
    /\ Rendered(router[s], auth[s]) = "LoginPage"
    /\ loginPage[s].listen
    /\ LET user == currentUser[s]
           found == getCurrentAdmin(store, user, readOk)
           signsOut == user # NoUser /\ ~found
       IN /\ currentUser' = [currentUser EXCEPT ![s] = IF signsOut THEN NoUser ELSE user]
          /\ authCb' = [authCb EXCEPT ![s] = @ \/ signsOut]
          /\ Settle(s, router[s], auth[s], probes[s], panel[s], check[s],
                    [isAuthenticated |-> found, listen |-> signsOut])
    /\ UNCHANGED <<store, settingsVars, accounts, initCall, uiVars>>

\* LoginPage.onSubmit calls signIn: the hook's isLoading is set
LoginSubmit(s) ==
    /\ Rendered(router[s], auth[s]) = "LoginPage"
    /\ signing[s].pc = "idle"
    /\ signing' = [signing EXCEPT ![s] =
                     [pc |-> "signIn", isLoading |-> TRUE, notified |-> "none"]]
    /\ UNCHANGED <<store, settingsVars, authVars, bootVars, form, appForm, profile, loginPage, hookVars>>

\* the provider rejects the credentials: the catch block of signIn
LoginRejected(s) ==
    /\ signing[s].pc = "signIn"
    /\ signing' = [signing EXCEPT ![s] =
                     [pc |-> "idle", isLoading |-> FALSE, notified |-> "error"]]
    /\ UNCHANGED <<store, settingsVars, authVars, bootVars, form, appForm, profile, loginPage, hookVars>>

\* AdminAuth.signIn answers (provider sign-in, the administrator document
\* read, the lastLogin write); on success onLoginSuccess = handleLoginSuccess,
\* which probes with the isAuthenticated of the router's last render; without
\* the administrator document signIn throws and the catch block of the hook runs
Login(s, docOk) ==
    /\ signing[s].pc = "signIn"
    /\ AuthAdmin.uid \in accounts
    /\ currentUser[s] = NoUser
    /\ currentUser' = [currentUser EXCEPT ![s] = AuthAdmin.uid]
    /\ authCb' = [authCb EXCEPT ![s] = TRUE]
    /\ LET key == AdminAuthKey(AuthAdmin.uid)
           ok == docOk /\ Exists(store, key)
           st == StartProbe(router[s], probes[s], auth[s].isAuthenticated)
       IN /\ store' = IF ok THEN SetDoc(store, key, Spread(store[key], [lastLogin |-> "now"]))
                      ELSE store
          /\ IF ok THEN Settle(s, st.router, auth[s], st.probes, panel[s], check[s],
                               [isAuthenticated |-> Rendered(router[s], auth[s]) = "LoginPage",
                                listen |-> Rendered(router[s], auth[s]) = "LoginPage"])
             ELSE /\ UNCHANGED bootVars /\ UNCHANGED auth
                  /\ loginPage' = ProviderNotifies(s)
          /\ signing' = [signing EXCEPT ![s] =
                           [pc |-> "idle", isLoading |-> FALSE,
                            notified |-> IF ok THEN "success" ELSE "error"]]
    /\ UNCHANGED <<settingsVars, accounts, initCall, form, appForm, profile, hookVars>>

\* AuthHeader's sign-out button, in this tab or in another tab of the browser
\* (the provider's session is shared by the tabs, and every tab is notified)
SignOut(s) ==
    /\ currentUser[s] # NoUser
    /\ currentUser' = [currentUser EXCEPT ![s] = NoUser]
    /\ authCb' = [authCb EXCEPT ![s] = TRUE]
    /\ loginPage' = ProviderNotifies(s)
    /\ UNCHANGED <<store, settingsVars, accounts, auth, bootVars, uiVars, hookVars>>

(***************************************************************************)
(* orgSettingsSchema, the form's zod resolver.  The text of a field that   *)
(* a pattern is matched against is looked at character by character.       *)
(***************************************************************************)
Chars(str) ==
    CASE str = "" -> <<>>
      [] str = "x@y.com" -> <<"x", "@", "y", ".", "c", "o", "m">>
      [] str = "not-an-email" -> <<"n", "o", "t", "-", "a", "n", "-", "e", "m", "a", "i", "l">>
      [] str = "x@y" -> <<"x", "@", "y">>
      [] str = "#3B82F6" -> <<"#", "3", "B", "8", "2", "F", "6">>
      [] str = "#8B5CF6" -> <<"#", "8", "B", "5", "C", "F", "6">>
      [] str = "#FFF" -> <<"#", "F", "F", "F">>
      [] str = "#12345" -> <<"#", "1", "2", "3", "4", "5">>
      [] str = "blue" -> <<"b", "l", "u", "e">>

HexDigits ==
    {"0", "1", "2", "3", "4", "5", "6", "7", "8", "9",
     "A", "B", "C", "D", "E", "F", "a", "b", "c", "d", "e", "f"}

Letters ==
    {"a", "b", "c", "d", "e", "f", "g", "h", "i", "j", "k", "l", "m", "n", "o",
     "p", "q", "r", "s", "t", "u", "v", "w", "x", "y", "z"}

\* /^#([A-Fa-f0-9]{6}|[A-Fa-f0-9]{3})$/
IsHexColour(str) ==
    LET c == Chars(str) IN
    /\ Len(c) \in {4, 7}
    /\ c[1] = "#"
    /\ \A k \in 2..Len(c) : c[k] \in HexDigits

\* z.string().email(): one "@", a local part that is not empty and does not
\* start with a dot, and a domain of labels that ends in two or more letters
IsEmail(str) ==
    LET c == Chars(str)
        ats == {k \in 1..Len(c) : c[k] = "@"}
        dots == {k \in 1..Len(c) : c[k] = "."}
    IN  /\ Cardinality(ats) = 1
        /\ LET at == CHOOSE k \in ats : TRUE
               domainDots == {k \in dots : k > at}
           IN  /\ at > 1
               /\ c[1] # "."
               /\ domainDots # {}
               /\ LET last == CHOOSE k \in domainDots : \A d \in domainDots : d <= k IN
                  /\ last > at + 1
                  /\ Len(c) - last >= 2
                  /\ \A k \in (last + 1)..Len(c) : c[k] \in Letters
                  /\ \A d \in domainDots : d + 1 \notin domainDots

\* a bug: the Name and the Contact.Email are not checked
SchemaErrorsLax(data) ==
    {f \in {"Address", "Contact.Phone"} :
        \/ f = "Address" /\ data.Address = ""
        \/ f = "Contact.Phone" /\ data.Contact.Phone = ""}

\* the fields orgSettingsSchema rejects
SchemaErrors(data) ==
    {f \in {"Name", "Address", "Contact.Email", "Contact.Phone",
            "MaximumSimultaneousLoans", "Theme.Primary", "Theme.Secondary"} :
        \/ f = "Name" /\ data.Name = ""
        \/ f = "Address" /\ data.Address = ""
        \/ f = "Contact.Email" /\ ~IsEmail(data.Contact.Email)
        \/ f = "Contact.Phone" /\ data.Contact.Phone = ""
        \/ f = "MaximumSimultaneousLoans"
              /\ (data.MaximumSimultaneousLoans < 1 \/ data.MaximumSimultaneousLoans > 10)
        \/ f = "Theme.Primary" /\ ~IsHexColour(data.Theme.Primary)
        \/ f = "Theme.Secondary" /\ ~IsHexColour(data.Theme.Secondary)}

(***************************************************************************)
(* ConfigurationPanel: handleSubmit(onSubmit) validates the form; onSubmit *)
(* calls updateOrgSettings with the whole validated form, then onComplete  *)
(* = handleConfigurationComplete.                                          *)
(***************************************************************************)
FormData ==
    [Name |-> "Central Library", Address |-> "1 Main Street",
     Contact |-> FullContact, MaximumSimultaneousLoans |-> 3,
     Theme |-> [Primary |-> "#3B82F6", Secondary |-> "#8B5CF6"],
     OpeningHours |-> defaultOrgSettings.OpeningHours,
     LateReturnPenalties |-> <<"">>, SpecificBorrowingRules |-> <<"">>]

\* what the user may have typed when the save button is pressed
FormInputs ==
    { FormData,
      [FormData EXCEPT !.Theme.Primary = "#FFF"],
      [FormData EXCEPT !.Contact = [Email |-> "x@y.com", Phone |-> "1"]],
      [FormData EXCEPT !.Name = ""],
      [FormData EXCEPT !.Address = ""],
      [FormData EXCEPT !.Contact.Email = ""],
      [FormData EXCEPT !.Contact.Email = "not-an-email"],
      [FormData EXCEPT !.Contact.Email = "x@y"],
      [FormData EXCEPT !.Contact.Phone = ""],
      [FormData EXCEPT !.MaximumSimultaneousLoans = 0],
      [FormData EXCEPT !.MaximumSimultaneousLoans = 11],
      [FormData EXCEPT !.Theme.Primary = "blue"],
      [FormData EXCEPT !.Theme.Secondary = "#12345"],
      [FormData EXCEPT !.Name = "", !.Contact.Email = ""] }

IdleForm ==
    [isSaving |-> FALSE, error |-> Null, errors |-> {}, notified |-> "none",
     logo |-> ""]

IdleAppForm == [pc |-> "idle", isSaving |-> FALSE, notified |-> "none"]

IdleProfile == [pc |-> "idle", op |-> "none", isLoading |-> FALSE, notified |-> "none"]

\* process.env of the build: both Cloudinary variables set
Configured == [cloudName |-> "demo", uploadPreset |-> "library"]

\* the hook's initial state; calls are the uploadFile calls in flight and last
\* is how the latest call to settle ended
NoOutcome == [outcome |-> "none", value |-> <<>>, degraded |-> FALSE, converted |-> "none"]

\* a time as the text of an <input type="time">, character by character
Time(h1, h2, m1, m2) == <<h1, h2, ":", m1, m2>>

closed == <<"c", "l", "o", "s", "e", "d">>

\* TimeInput's useState: hours, isClosed; value is what the editor last handed
\* to register(day).onChange, parsed the result of the last schema check
NoValue == <<>>

FreshTimeInput ==
    [hours |-> [open |-> Time("0", "8", "0", "0"), close |-> Time("1", "8", "0", "0")],
     isClosed |-> FALSE, value |-> NoValue,
     parsed |-> [data |-> NoValue, success |-> FALSE]]

\* user: null, in the shape of an AdminUser
NoAdminUser == [uid |-> Null, role |-> Null]

\* useState<AuthState>: the hook before its listener has answered; cb, signIn,
\* signOut, create and refresh are the positions of the listener's callback and
\* of the four operations the hook returns, signInError the message of the
\* error the last AdminAuth.signIn threw
FreshHook ==
    [user |-> NoAdminUser, isLoading |-> TRUE, isAuthenticated |-> FALSE,
     cb |-> "idle", signIn |-> "idle", signOut |-> "idle", create |-> "idle",
     refresh |-> "idle", signInError |-> Null]

IdleUpload ==
    [isUploading |-> FALSE, uploadProgress |-> 0, error |-> Null,
     calls |-> <<>>, last |-> NoOutcome]

\* value || ''
OrEmpty(obj, field) == IF field \in DOMAIN obj THEN obj[field] ELSE ""

\* the updatedData of onSubmit
SubmittedData(data, logo) ==
    Spread(data,
           [Contact |-> Spread(data.Contact,
                               [Facebook |-> OrEmpty(data.Contact, "Facebook"),
                                Instagram |-> OrEmpty(data.Contact, "Instagram"),
                                WhatsApp |-> OrEmpty(data.Contact, "WhatsApp")]),
            Logo |-> logo])

handleConfigurationComplete(r) == [r EXCEPT !.systemState = "ready"]

\* the save button: the resolver rejects the form (the errors are shown per
\* field and onSubmit is not called), or onSubmit starts and the getDoc of
\* updateOrgSettings resolves
FormSubmit(s, data) ==
    /\ Rendered(router[s], auth[s]) = "ConfigurationPanel"
    /\ ~form[s].isSaving
    /\ IF SchemaErrors(data) # {}
       THEN /\ form' = [form EXCEPT ![s].errors = SchemaErrors(data)]
            /\ UNCHANGED <<upd, calls>>
       ELSE /\ upd[s].pc \in {"idle", "done", "failed"}
            /\ calls[s] < MaxUpdates
            /\ calls' = [calls EXCEPT ![s] = @ + 1]
            /\ upd' = [upd EXCEPT ![s] =
                         [pc |-> "save", which |-> "org",
                          settings |-> SubmittedData(data, form[s].logo),
                          currentDoc |-> GetDoc(store, OrgKey),
                          error |-> "", overlapped |-> FALSE]]
            /\ form' = [form EXCEPT ![s].isSaving = TRUE, ![s].error = Null,
                                    ![s].errors = {}, ![s].notified = "none"]
    /\ UNCHANGED <<store, got, authVars, bootVars, signing, appForm, profile, loginPage, hookVars>>

\* the setDoc resolves: the success notification, onComplete, and the finally
FormSaved(s) ==
    /\ upd[s].pc = "save"
    /\ store' = SetDoc(store, OrgKey, PendingData(upd[s]))
    /\ upd' = [upd EXCEPT ![s].pc = "done"]
    /\ form' = [form EXCEPT ![s].isSaving = FALSE, ![s].notified = "success"]
    /\ Settle(s, handleConfigurationComplete(router[s]), auth[s], probes[s],
              panel[s], check[s], loginPage[s])
    /\ UNCHANGED <<got, calls, accounts, currentUser, authCb, initCall, signing,
                   appForm, profile>>

\* the setDoc rejects: the catch block of onSubmit, and the finally
FormSaveFails(s) ==
    /\ upd[s].pc = "save"
    /\ upd' = [upd EXCEPT ![s].pc = "failed", ![s].error = UpdateError("org")]
    /\ form' = [form EXCEPT ![s].isSaving = FALSE, ![s].notified = "error",
                            ![s].error = "Erreur lors de la sauvegarde"]
    /\ UNCHANGED <<store, got, calls, authVars, bootVars, signing, appForm, profile, loginPage, hookVars>>

(***************************************************************************)
(* AuthHeader.handleSignOut: useAuth.signOut, then router.push('/').  The  *)
(* header is part of the ConfigurationPanel and of the profile page.       *)
(***************************************************************************)
SignOutSubmit(s) ==
    /\ \/ page[s] = <<"profile">>
       \/ Rendered(router[s], auth[s]) = "ConfigurationPanel"
    /\ auth[s].isAuthenticated
    /\ signing[s].pc = "idle"
    /\ signing' = [signing EXCEPT ![s] =
                     [pc |-> "signOut", isLoading |-> TRUE, notified |-> "none"]]
    /\ UNCHANGED <<store, settingsVars, authVars, bootVars, form, appForm, profile, loginPage, hookVars>>

\* AdminAuth.signOut resolves: the provider session ends and its listeners are
\* notified
SignOutOk(s) ==
    /\ signing[s].pc = "signOut"
    /\ currentUser' = [currentUser EXCEPT ![s] = NoUser]
    /\ authCb' = [authCb EXCEPT ![s] = TRUE]
    /\ signing' = [signing EXCEPT ![s] =
                     [pc |-> "idle", isLoading |-> FALSE, notified |-> "success"]]
    /\ nav' = [nav EXCEPT ![s] = RootPath]
    /\ UNCHANGED <<store, settingsVars, accounts, auth, router, probes, panel, check,
                   initCall, page, form, appForm, profile, loginPage, hookVars>>

\* AdminAuth.signOut rejects: the catch block of signOut
SignOutFails(s) ==
    /\ signing[s].pc = "signOut"
    /\ signing' = [signing EXCEPT ![s] =
                     [pc |-> "idle", isLoading |-> FALSE, notified |-> "error"]]
    /\ nav' = [nav EXCEPT ![s] = RootPath]
    /\ UNCHANGED <<store, settingsVars, authVars, router, probes, panel, check,
                   initCall, page, form, appForm, profile, loginPage, hookVars>>

(***************************************************************************)
(* AdvancedSettingsPanel.onSubmit: updateAppSettings with the whole form.  *)
(***************************************************************************)
AppFormInputs ==
    { [AppVersion |-> 1, DefaultLoanDuration |-> 21, GlobalLimits |-> 5,
       MaintenanceMode |-> FALSE],
      [AppVersion |-> 1, DefaultLoanDuration |-> 14, GlobalLimits |-> 5,
       MaintenanceMode |-> TRUE] }

\* onSubmit starts and the getDoc of updateAppSettings resolves
AppSubmit(s, data) ==
    /\ auth[s].isAuthenticated
    /\ ~appForm[s].isSaving
    /\ upd[s].pc \in {"idle", "done", "failed"}
    /\ calls[s] < MaxUpdates
    /\ calls' = [calls EXCEPT ![s] = @ + 1]
    /\ upd' = [upd EXCEPT ![s] =
                 [pc |-> "appsave", which |-> "app", settings |-> data,
                  currentDoc |-> GetDoc(store, AppKey),
                  error |-> "", overlapped |-> FALSE]]
    /\ appForm' = [appForm EXCEPT ![s] =
                     [pc |-> "save", isSaving |-> TRUE, notified |-> "none"]]
    /\ UNCHANGED <<store, got, authVars, bootVars, form, signing, profile, loginPage, hookVars>>

\* the setDoc resolves: the success notification and the finally
AppSaved(s) ==
    /\ upd[s].pc = "appsave"
    /\ store' = SetDoc(store, AppKey, PendingData(upd[s]))
    /\ upd' = [upd EXCEPT ![s].pc = "done"]
    /\ appForm' = [appForm EXCEPT ![s] =
                     [pc |-> "idle", isSaving |-> FALSE, notified |-> "success"]]
    /\ UNCHANGED <<got, calls, authVars, bootVars, form, signing, profile, loginPage, hookVars>>

\* the setDoc rejects: the catch block and the finally
AppSaveFails(s) ==
    /\ upd[s].pc = "appsave"
    /\ upd' = [upd EXCEPT ![s].pc = "failed", ![s].error = UpdateError("app")]
    /\ appForm' = [appForm EXCEPT ![s] =
                     [pc |-> "idle", isSaving |-> FALSE, notified |-> "error"]]
    /\ UNCHANGED <<store, got, calls, authVars, bootVars, form, signing, profile, loginPage, hookVars>>

(***************************************************************************)
(* UserProfilePage: onUpdateProfile, onChangePassword, onChangeEmail.  The *)
(* three handlers share one isLoading; each awaits its calls in turn       *)
(* (reauthenticateWithCredential, updatePassword / updateEmail, updateDoc  *)
(* of admin/<uid>).  The credentials the provider keeps are not part of    *)
(* the model's state.  The page is served at /profile, which the           *)
(* middleware of src/middleware.ts lets through.                           *)
(***************************************************************************)
ProfilePath == <<"profile">>

ProfileOps == {"profile", "password", "email"}

ProfileKey(uid) == <<"admin", uid>>

\* the first awaited call of a handler
FirstCall(op) == IF op = "profile" THEN "updateDoc" ELSE "reauth"

\* the call awaited after a call has resolved
NextCall(pc) == IF pc = "reauth" THEN "update" ELSE "updateDoc"

\* the fields the handler's updateDoc sets
ProfileFields(op) ==
    IF op = "profile" THEN [name |-> "Ada L.", updatedAt |-> "now"]
    ELSE IF op = "password" THEN [passwordUpdatedAt |-> "now"]
    ELSE [email |-> "new@b.com", emailUpdatedAt |-> "now"]

\* the catch block notifies: always in onUpdateProfile and onChangeEmail, in
\* onChangePassword only when the error carries a code (isFirebaseError)
NotifiesOnFailure(op, coded) == op # "password" \/ coded

ProfileSubmit(s, op) ==
    /\ page[s] = ProfilePath
    /\ auth[s].isAuthenticated
    /\ op # "profile" => currentUser[s] # NoUser
    /\ ~profile[s].isLoading
    /\ profile' = [profile EXCEPT ![s] =
                     [pc |-> FirstCall(op), op |-> op, isLoading |-> TRUE,
                      notified |-> "none"]]
    /\ UNCHANGED <<store, settingsVars, authVars, bootVars, form, signing, appForm, loginPage, hookVars>>

\* the awaited call resolves; after the updateDoc, the success notification
\* and the finally
ProfileCallOk(s) ==
    /\ profile[s].pc # "idle"
    /\ IF profile[s].pc = "updateDoc"
       THEN /\ currentUser[s] # NoUser
            /\ Exists(store, ProfileKey(currentUser[s]))
            /\ store' = SetDoc(store, ProfileKey(currentUser[s]),
                               Spread(store[ProfileKey(currentUser[s])],
                                      ProfileFields(profile[s].op)))
            /\ profile' = [profile EXCEPT ![s].pc = "idle", ![s].isLoading = FALSE,
                                          ![s].notified = "success"]
       ELSE /\ profile' = [profile EXCEPT ![s].pc = NextCall(@)]
            /\ store' = store
    /\ UNCHANGED <<settingsVars, authVars, bootVars, form, signing, appForm, loginPage, hookVars>>

\* the awaited call rejects, with an error that carries a code or one that
\* does not: the catch block and the finally
ProfileCallFails(s, coded) ==
    /\ profile[s].pc # "idle"
    /\ profile' = [profile EXCEPT ![s].pc = "idle", ![s].isLoading = FALSE,
                                  ![s].notified =
                                      IF NotifiesOnFailure(profile[s].op, coded)
                                      THEN "error" ELSE "none"]
    /\ UNCHANGED <<store, settingsVars, authVars, bootVars, form, signing, appForm, loginPage, hookVars>>

(***************************************************************************)
(* Specifications                                                          *)
(***************************************************************************)
EmptyStore == [k \in {} |-> NoData]

Init ==
    /\ store = EmptyStore
    /\ upd = [s \in Sessions |-> IdleUpdate]
    /\ got = [s \in Sessions |-> [status |-> "none", which |-> "org", value |-> NoData, error |-> ""]]
    /\ calls = [s \in Sessions |-> 0]
    /\ accounts = {}
    /\ currentUser = [s \in Sessions |-> NoUser]
    /\ authCb = [s \in Sessions |-> TRUE]
    /\ auth = [s \in Sessions |-> [isLoading |-> TRUE, isAuthenticated |-> FALSE]]
    /\ router = [s \in Sessions |-> [systemState |-> "loading", error |-> Null]]
    /\ probes = [s \in Sessions |-> <<>>]
    /\ panel = [s \in Sessions |-> Unmounted]
    /\ check = [s \in Sessions |-> FALSE]
    /\ initCall = [s \in Sessions |-> IdleInit]
    /\ page = [s \in Sessions |-> RootPath]
    /\ nav = [s \in Sessions |-> NoNav]
    /\ form = [s \in Sessions |-> IdleForm]
    /\ signing = [s \in Sessions |-> IdleSigning]
    /\ appForm = [s \in Sessions |-> IdleAppForm]
    /\ profile = [s \in Sessions |-> IdleProfile]
    /\ loginPage = [s \in Sessions |-> NoLoginPage]
    /\ env = Configured
    /\ upload = [s \in Sessions |-> IdleUpload]
    /\ authHook = [s \in Sessions |-> FreshHook]
    /\ timeInput = [s \in Sessions |-> FreshTimeInput]

NextSettings ==
    \/ \E s \in Sessions, which \in {"org", "app"} :
            \E x \in PartialsOf(which) : UpdateRead(s, which, x)
    \/ \E s \in Sessions, which \in {"org", "app"} :
            \E x \in PartialsOf(which) : UpdateReadFails(s, which, x)
    \/ \E s \in Sessions : UpdateWrite(s)
    \/ \E s \in Sessions : UpdateWriteFails(s)
    \/ \E s \in Sessions, which \in {"org", "app"} : GetSettings(s, which)
    \/ \E s \in Sessions, which \in {"org", "app"} : GetSettingsFails(s, which)

SpecSettings == Init /\ [][NextSettings]_vars

\* One browser session with the whole application.
Clients == {"s1"}

\* the administrator who fills the setup form is the one whose account is created
BootAdmins == {[name |-> AuthAdmin.name, email |-> AuthAdmin.email]}

Next ==
    \/ \E s \in Clients, ok \in BOOLEAN : CreateAdminAccount(s, ok)
    \/ \E s \in Clients, ok \in BOOLEAN : AuthCallback(s, ok)
    \/ \E s \in Clients, ok \in BOOLEAN : LoginPageCallback(s, ok)
    \/ \E s \in Clients : LoginSubmit(s)
    \/ \E s \in Clients : LoginRejected(s)
    \/ \E s \in Clients, ok \in BOOLEAN : Login(s, ok)
    \/ \E s \in Clients : SignOut(s)
    \/ \E s \in Clients, i \in 1..MaxProbes, ok \in BOOLEAN : ProbeMarker(s, i, ok)
    \/ \E s \in Clients, i \in 1..MaxProbes : ProbeOrg(s, i)
    \/ \E s \in Clients, i \in 1..MaxProbes : ProbeOrgFails(s, i)
    \/ \E s \in Clients : Retry(s)
    \/ \E s \in Clients : Navigate(s)
    \/ \E s \in Clients, ok \in BOOLEAN : CheckResolves(s, ok)
    \/ \E s \in Clients, a \in BootAdmins : SubmitAdmin(s, a)
    \/ \E s \in Clients : CommitOk(s)
    \/ \E s \in Clients : CommitFails(s)
    \/ \E s \in Clients : InitTimer(s)
    \/ \E s \in Clients, d \in {FormData} : FormSubmit(s, d)
    \/ \E s \in Clients : FormSaved(s)
    \/ \E s \in Clients : FormSaveFails(s)

Spec == Init /\ [][Next]_vars

\* Two browser sessions, nobody signed in, bootstrapping the same empty store.
NextInit ==
    \/ \E s \in Sessions, ok \in BOOLEAN : AuthCallback(s, ok)
    \/ \E s \in Sessions, i \in 1..MaxProbes, ok \in BOOLEAN : ProbeMarker(s, i, ok)
    \/ \E s \in Sessions, ok \in BOOLEAN : CheckResolves(s, ok)
    \/ \E s \in Sessions, a \in Admins : SubmitAdmin(s, a)
    \/ \E s \in Sessions : CommitOk(s)
    \/ \E s \in Sessions : CommitFails(s)
    \/ \E s \in Sessions : InitTimer(s)

SpecInit == Init /\ [][NextInit]_vars

\* One browser session that bootstraps the store and calls the settings API,
\* before and after the initialization.
NextFrame ==
    \/ \E s \in Clients, ok \in BOOLEAN : AuthCallback(s, ok)
    \/ \E s \in Clients, i \in 1..MaxProbes, ok \in BOOLEAN : ProbeMarker(s, i, ok)
    \/ \E s \in Clients, ok \in BOOLEAN : CheckResolves(s, ok)
    \/ \E s \in Clients, a \in Admins : SubmitAdmin(s, a)
    \/ \E s \in Clients : CommitOk(s)
    \/ \E s \in Clients : CommitFails(s)
    \/ \E s \in Clients : InitTimer(s)
    \/ \E s \in Clients, which \in {"org", "app"} :
            \E x \in PartialsOf(which) : UpdateRead(s, which, x)
    \/ \E s \in Clients, which \in {"org", "app"} :
            \E x \in PartialsOf(which) : UpdateReadFails(s, which, x)
    \/ \E s \in Clients : UpdateWrite(s)
    \/ \E s \in Clients : UpdateWriteFails(s)
    \/ \E s \in Clients, which \in {"org", "app"} : GetSettings(s, which)
    \/ \E s \in Clients, which \in {"org", "app"} : GetSettingsFails(s, which)

SpecFrame == Init /\ [][NextFrame]_vars

\* A signed-in administrator on an initialized store, just after the auth
\* callback has started the first probe, while both sessions call
\* updateOrgSettings.  The store is the one initializeDatabase and
\* createAdminAccount leave, with OrgSettings as written by the bootstrap, as
\* left by earlier saves (a Theme only, a Name without a Contact.Email), or
\* deleted in the store's console.
InitializedStore ==
    SetDoc(CommitBatch(EmptyStore, InitBatch(EmptyStore, [name |-> "Ada", email |-> "a@b.com"])),
           AdminAuthKey(AuthAdmin.uid),
           [email |-> AuthAdmin.email, name |-> AuthAdmin.name,
            role |-> "super_admin", createdAt |-> "now"])

WithoutDoc(st, key) == [k \in DOMAIN st \ {key} |-> st[k]]

OrgSettingsBefore ==
    { defaultOrgSettings,
      Spread(defaultOrgSettings, [Theme |-> [Primary |-> "#FF0000"]]),
      Spread(defaultOrgSettings, [Name |-> "Old Library"]) }

InitProbe ==
    /\ store \in {SetDoc(InitializedStore, OrgKey, org) : org \in OrgSettingsBefore}
                 \cup {WithoutDoc(InitializedStore, OrgKey)}
    /\ upd = [s \in Sessions |-> IdleUpdate]
    /\ got = [s \in Sessions |-> [status |-> "none", which |-> "org", value |-> NoData, error |-> ""]]
    /\ calls = [s \in Sessions |-> 0]
    /\ accounts = {AuthAdmin.uid}
    /\ currentUser = [s \in Sessions |-> IF s \in Clients THEN AuthAdmin.uid ELSE NoUser]
    /\ authCb = [s \in Sessions |-> s \notin Clients]
    /\ auth = [s \in Sessions |->
                IF s \in Clients THEN [isLoading |-> FALSE, isAuthenticated |-> TRUE]
                ELSE [isLoading |-> TRUE, isAuthenticated |-> FALSE]]
    /\ router = [s \in Sessions |-> [systemState |-> "loading", error |-> Null]]
    /\ probes = [s \in Sessions |-> IF s \in Clients THEN <<NewProbe(TRUE)>> ELSE <<>>]
    /\ panel = [s \in Sessions |-> Unmounted]
    /\ check = [s \in Sessions |-> FALSE]
    /\ initCall = [s \in Sessions |-> IdleInit]
    /\ page = [s \in Sessions |-> RootPath]
    /\ nav = [s \in Sessions |-> NoNav]
    /\ form = [s \in Sessions |-> IdleForm]
    /\ signing = [s \in Sessions |-> IdleSigning]
    /\ appForm = [s \in Sessions |-> IdleAppForm]
    /\ profile = [s \in Sessions |-> IdleProfile]
    /\ loginPage = [s \in Sessions |-> NoLoginPage]
    /\ env = Configured
    /\ upload = [s \in Sessions |-> IdleUpload]
    /\ authHook = [s \in Sessions |-> FreshHook]
    /\ timeInput = [s \in Sessions |-> FreshTimeInput]

NextProbe ==
    \/ \E s \in Sessions, x \in OrgPartials : UpdateRead(s, "org", x)
    \/ \E s \in Sessions, x \in OrgPartials : UpdateReadFails(s, "org", x)
    \/ \E s \in Sessions : UpdateWrite(s)
    \/ \E s \in Sessions : UpdateWriteFails(s)
    \/ \E s \in Clients, i \in 1..MaxProbes, ok \in BOOLEAN : ProbeMarker(s, i, ok)
    \/ \E s \in Clients, i \in 1..MaxProbes : ProbeOrg(s, i)
    \/ \E s \in Clients, i \in 1..MaxProbes : ProbeOrgFails(s, i)
    \/ \E s \in Clients : Retry(s)
    \/ \E s \in Clients : Navigate(s)

SpecProbe == InitProbe /\ [][NextProbe]_vars

(***************************************************************************)
(* The configuration form in front of an administrator: the system is      *)
(* initialized, the administrator is signed in, and anything may be typed  *)
(* into the form before the save button is pressed.                        *)
(***************************************************************************)
NextForm ==
    \/ \E s \in Clients, i \in 1..MaxProbes, ok \in BOOLEAN : ProbeMarker(s, i, ok)
    \/ \E s \in Clients, i \in 1..MaxProbes : ProbeOrg(s, i)
    \/ \E s \in Clients, i \in 1..MaxProbes : ProbeOrgFails(s, i)
    \/ \E s \in Clients, d \in FormInputs : FormSubmit(s, d)
    \/ \E s \in Clients : FormSaved(s)
    \/ \E s \in Clients : FormSaveFails(s)
    \/ \E s \in Clients : Retry(s)
    \/ \E s \in Clients : Navigate(s)

SpecForm == InitProbe /\ [][NextForm]_vars

(***************************************************************************)
(* The async action sites of one browser tab, each in front of the screen  *)
(* that holds it.  The admin/<uid> document exists when the account was    *)
(* created by the AdminAuth that writes it there.                          *)
(***************************************************************************)
ProfiledStore(st) ==
    SetDoc(st, ProfileKey(AuthAdmin.uid),
           [email |-> AuthAdmin.email, name |-> AuthAdmin.name,
            role |-> "super_admin", createdAt |-> "now"])

\* one browser tab in front of a screen: store st, provider user and accounts,
\* the hook's isAuthenticated, the router's phase, the panel and the page
Tab(st, accs, user, authed, phase, pnl, chk, pg) ==
    /\ store = st
    /\ upd = [s \in Sessions |-> IdleUpdate]
    /\ got = [s \in Sessions |-> [status |-> "none", which |-> "org", value |-> NoData, error |-> ""]]
    /\ calls = [s \in Sessions |-> 0]
    /\ accounts = accs
    /\ currentUser = [s \in Sessions |-> IF s \in Clients THEN user ELSE NoUser]
    /\ authCb = [s \in Sessions |-> s \notin Clients]
    /\ auth = [s \in Sessions |->
                IF s \in Clients THEN [isLoading |-> FALSE, isAuthenticated |-> authed]
                ELSE [isLoading |-> TRUE, isAuthenticated |-> FALSE]]
    /\ router = [s \in Sessions |->
                  IF s \in Clients THEN [systemState |-> phase, error |-> Null]
                  ELSE [systemState |-> "loading", error |-> Null]]
    /\ probes = [s \in Sessions |-> <<>>]
    /\ panel = [s \in Sessions |-> IF s \in Clients THEN pnl ELSE Unmounted]
    /\ check = [s \in Sessions |-> s \in Clients /\ chk]
    /\ initCall = [s \in Sessions |-> IdleInit]
    /\ page = [s \in Sessions |-> IF s \in Clients THEN pg ELSE RootPath]
    /\ nav = [s \in Sessions |-> NoNav]
    /\ form = [s \in Sessions |-> IdleForm]
    /\ signing = [s \in Sessions |-> IdleSigning]
    /\ appForm = [s \in Sessions |-> IdleAppForm]
    /\ profile = [s \in Sessions |-> IdleProfile]
    /\ loginPage = [s \in Sessions |->
                     IF s \in Clients /\ phase = "needs-authentication"
                     THEN FreshLoginPage ELSE NoLoginPage]

\* the same on a build with both Cloudinary variables set and no upload started
Scene(st, accs, user, authed, phase, pnl, chk, pg) ==
    /\ Tab(st, accs, user, authed, phase, pnl, chk, pg)
    /\ env = Configured
    /\ upload = [s \in Sessions |-> IdleUpload]
    /\ authHook = [s \in Sessions |-> FreshHook]
    /\ timeInput = [s \in Sessions |-> FreshTimeInput]

\* the InitializationPanel just mounted on an empty store; the LoginPage on an
\* initialized store; the ConfigurationPanel of a signed-in administrator; the
\* profile page of a signed-in administrator
InitSites ==
    \/ Scene(EmptyStore, {}, NoUser, FALSE, "needs-initialization", FreshPanel, TRUE,
             RootPath)
    \/ \E st \in {InitializedStore, ProfiledStore(InitializedStore)} :
          \/ Scene(st, {AuthAdmin.uid}, NoUser, FALSE, "needs-authentication",
                   Unmounted, FALSE, RootPath)
          \/ Scene(st, {AuthAdmin.uid}, AuthAdmin.uid, TRUE, "needs-configuration",
                   Unmounted, FALSE, RootPath)
          \/ Scene(st, {AuthAdmin.uid}, AuthAdmin.uid, TRUE, "loading",
                   Unmounted, FALSE, ProfilePath)

NextSites ==
    \/ \E s \in Clients : Navigate(s)
    \/ \E s \in Clients, ok \in BOOLEAN : CheckResolves(s, ok)
    \/ \E s \in Clients, a \in Admins : SubmitAdmin(s, a)
    \/ \E s \in Clients : CommitOk(s)
    \/ \E s \in Clients : CommitFails(s)
    \/ \E s \in Clients : InitTimer(s)
    \/ \E s \in Clients, ok \in BOOLEAN : LoginPageCallback(s, ok)
    \/ \E s \in Clients : LoginSubmit(s)
    \/ \E s \in Clients : LoginRejected(s)
    \/ \E s \in Clients, ok \in BOOLEAN : Login(s, ok)
    \/ \E s \in Clients : SignOutSubmit(s)
    \/ \E s \in Clients : SignOutOk(s)
    \/ \E s \in Clients : SignOutFails(s)
    \/ \E s \in Clients, d \in {FormData} : FormSubmit(s, d)
    \/ \E s \in Clients : FormSaved(s)
    \/ \E s \in Clients : FormSaveFails(s)
    \/ \E s \in Clients, d \in AppFormInputs : AppSubmit(s, d)
    \/ \E s \in Clients : AppSaved(s)
    \/ \E s \in Clients : AppSaveFails(s)
    \/ \E s \in Clients, op \in ProfileOps : ProfileSubmit(s, op)
    \/ \E s \in Clients : ProfileCallOk(s)
    \/ \E s \in Clients, coded \in BOOLEAN : ProfileCallFails(s, coded)

SpecSites == InitSites /\ [][NextSites]_vars

(***************************************************************************)
(* The login page in front of a signed-out administrator on an initialized *)
(* store, while no read fails.  Every awaited read answers and every       *)
(* pending listener notification is delivered: the steps of the probes,    *)
(* of the listeners and of a sign-in in flight are fair.                   *)
(***************************************************************************)
InitLogin ==
    \E org \in {defaultOrgSettings, Spread(defaultOrgSettings, FormData)} :
        Scene(SetDoc(InitializedStore, OrgKey, org), {AuthAdmin.uid}, NoUser, FALSE,
              "needs-authentication", Unmounted, FALSE, RootPath)

ProbeStep(s) ==
    \E i \in 1..MaxProbes : ProbeMarker(s, i, TRUE) \/ ProbeOrg(s, i)

NextLogin ==
    \/ \E s \in Clients : LoginSubmit(s)
    \/ \E s \in Clients : LoginRejected(s)
    \/ \E s \in Clients : Login(s, TRUE)
    \/ \E s \in Clients : AuthCallback(s, TRUE)
    \/ \E s \in Clients : LoginPageCallback(s, TRUE)
    \/ \E s \in Clients : ProbeStep(s)
    \/ \E s \in Clients, d \in FormInputs : FormSubmit(s, d)
    \/ \E s \in Clients : FormSaved(s)
    \/ \E s \in Clients : Navigate(s)

SpecLogin ==
    /\ InitLogin
    /\ [][NextLogin]_vars
    /\ \A s \in Clients :
          /\ WF_vars(AuthCallback(s, TRUE))
          /\ WF_vars(LoginPageCallback(s, TRUE))
          /\ WF_vars(ProbeStep(s))

(***************************************************************************)
(* The claims                                                              *)
(***************************************************************************)
Field(obj, f) == IF f \in DOMAIN obj THEN obj[f] ELSE ""

StoredOrDefault(st, which) ==
    IF SettingsKey(which) \in DOMAIN st THEN st[SettingsKey(which)] ELSE DefaultOf(which)

OrgConfigured(st) ==
    LET org == StoredOrDefault(st, "org") IN
    Field(org, "Name") # "" /\ Field(org.Contact, "Email") # ""

PhaseOfTriple(markerExists, authenticated, configured) ==
    IF ~markerExists THEN "needs-initialization"
    ELSE IF ~authenticated THEN "needs-authentication"
    ELSE IF ~configured THEN "needs-configuration"
    ELSE "ready"

ProbeFinishes(s) == Len(probes'[s]) < Len(probes[s])

\* C1: a probe none of whose reads fails ends in the phase the triple (marker
\* exists, session authenticated, OrgSettings configured) fixes: no marker gives
\* needs-initialization, marker without session needs-authentication, marker and
\* session with Name or Contact.Email empty needs-configuration, otherwise ready.
C1_ProbeIsFunctionOfTriple ==
    [][\A s \in Sessions, i \in 1..MaxProbes :
          ((ProbeMarker(s, i, TRUE) /\ ProbeFinishes(s)) \/ ProbeOrg(s, i))
          => router'[s].systemState =
                PhaseOfTriple(Exists(store, InitKey), probes[s][i].isAuthenticated,
                              OrgConfigured(store))]_vars

\* C1 witness: a probe has answered needs-configuration for a signed-in session
\* on an initialized store whose OrgSettings has no Name
C1_Witness ==
    /\ router["s1"].systemState = "needs-configuration"
    /\ auth["s1"].isAuthenticated
    /\ Exists(store, InitKey)
    /\ ~OrgConfigured(store)

\* C2: a failed read at any step of the probe (the marker read as well as the
\* OrgSettings read) puts the router in error with a message, never in another
\* phase.
C2_ReadFailureGivesError ==
    [][\A s \in Sessions, i \in 1..MaxProbes :
          (ProbeMarker(s, i, FALSE) \/ ProbeOrgFails(s, i))
          => (router'[s].systemState = "error" /\ router'[s].error # Null)]_vars

AdminDocsFor(st, email) ==
    {k \in DOMAIN st : k[1] = "admin" /\ st[k].email = email}

\* C3: whenever the marker document exists, the administrator document of the
\* admin who initialized, AppSettings, OrgSettings and Notifications exist too.
C3_MarkerImpliesDocuments ==
    Exists(store, InitKey) =>
        /\ AdminDocsFor(store, store[InitKey].initializedBy) # {}
        /\ Exists(store, AppKey)
        /\ Exists(store, OrgKey)
        /\ Exists(store, NotificationsKey)

\* C3 witness: the marker exists and an initializeDatabase call has failed
C3_Witness ==
    /\ Exists(store, InitKey)
    /\ \E s \in Sessions : initCall[s].result = "failed"

\* C4: when the batch commit fails, the store is unchanged, the call rejects
\* with 'Failed to initialize database', onComplete is not called (the router
\* is left as it is) and a mounted panel is back on the admin-setup step of the
\* needs-initialization phase, not loading.
C4_FailedCommitLeavesNothing ==
    [][\A s \in Sessions :
          (initCall[s].pc = "commit" /\ initCall'[s].result = "failed")
          => /\ store' = store
             /\ initCall'[s].error = "Failed to initialize database"
             /\ initCall'[s].pc = "idle"
             /\ router'[s] = router[s]
             /\ panel[s].currentStep # "unmounted"
                  => /\ panel'[s].currentStep = "admin-setup"
                     /\ ~panel'[s].isLoading
                     /\ router'[s].systemState = "needs-initialization"]_vars

\* C4 witness: a commit has failed, the panel is back on admin-setup and the
\* store is still empty
C4_Witness ==
    \E s \in Sessions :
        /\ initCall[s].result = "failed"
        /\ panel[s].currentStep = "admin-setup"
        /\ router[s].systemState = "needs-initialization"
        /\ store = EmptyStore

\* C5: the admin collection never holds two documents for one email, and holds
\* exactly one once an initializeDatabase call with that email has succeeded.
C5_OneAdminPerEmail ==
    \A a \in Admins :
        /\ Cardinality(AdminDocsFor(store, a.email)) <= 1
        /\ (\E s \in Sessions : initCall[s].result = "ok" /\ initCall[s].adminData = a)
              => Cardinality(AdminDocsFor(store, a.email)) = 1

\* C5 witness: two initializeDatabase calls with the same name and email have
\* succeeded
C5_Witness ==
    /\ initCall["s1"].result = "ok"
    /\ initCall["s2"].result = "ok"
    /\ initCall["s1"].adminData = initCall["s2"].adminData

\* C6: initializeDatabase commits only while the marker is absent, so the
\* marker, once it exists, is never written again.
C6_CommitOnlyWithoutMarker ==
    [][\A s \in Sessions :
          (initCall[s].pc = "commit" /\ initCall'[s].result = "ok")
          => ~Exists(store, InitKey)]_vars

\* C7: a getter answers the stored document when it exists and the compiled-in
\* default when it does not (for OrgSettings a default with Name = "", which
\* the probe takes to needs-configuration); it fails, with 'Failed to fetch ...
\* settings', only in a step in which the read itself fails.
C7_GettersDefaultWhenAbsent ==
    [][\A s \in Sessions :
          got'[s] # got[s] =>
            LET which == got'[s].which
                key == SettingsKey(which)
            IN  \/ /\ got'[s].status = "ok"
                   /\ Exists(store, key) => got'[s].value = store[key]
                   /\ ~Exists(store, key) =>
                        /\ got'[s].value =
                             (IF which = "org" THEN defaultOrgSettings
                              ELSE defaultAppSettings)
                        /\ which = "org" =>
                             /\ got'[s].value.Name = ""
                             /\ AfterOrg(got'[s].value) = "needs-configuration"
                \/ /\ got'[s].status = "failed"
                   /\ GetSettingsFails(s, which)
                   /\ got'[s].error = (IF which = "org"
                                       THEN "Failed to fetch organization settings"
                                       ELSE "Failed to fetch app settings")
                \/ /\ got'[s].status = "none"
                   /\ upd'[s] # upd[s]]_vars

\* C7 witness: getOrgSettings has answered the default for an absent document
C7_Witness ==
    \E s \in Sessions :
        /\ got[s].status = "ok"
        /\ got[s].which = "org"
        /\ got[s].value = defaultOrgSettings
        /\ ~Exists(store, OrgKey)

Previous(u) == IF u.currentDoc.exists THEN u.currentDoc.data ELSE DefaultOf(u.which)

TopLevelMerge(doc, previous, x) ==
    /\ DOMAIN doc = DOMAIN previous \cup DOMAIN x
    /\ \A k \in DOMAIN x : doc[k] = x[k]
    /\ \A k \in DOMAIN previous \ DOMAIN x : doc[k] = previous[k]

\* C8: with no other writer in between, a get after a successful update(x)
\* answers a document whose top-level keys are those of {...previous, ...x},
\* previous being the stored document before the update or the default.
C8_RoundTrip ==
    \A s \in Sessions :
        (/\ upd[s].pc = "done"
         /\ ~upd[s].overlapped
         /\ got[s].status = "ok"
         /\ got[s].which = upd[s].which)
        => TopLevelMerge(got[s].value, Previous(upd[s]), upd[s].settings)

\* C8 witness: a round trip over a stored document that differs from the default
C8_Witness ==
    \E s \in Sessions :
        /\ upd[s].pc = "done"
        /\ ~upd[s].overlapped
        /\ got[s].status = "ok"
        /\ got[s].which = upd[s].which
        /\ upd[s].currentDoc.exists
        /\ upd[s].currentDoc.data # DefaultOf(upd[s].which)

\* C9: updateOrgSettings replaces a nested object as a whole: after an update
\* that names Theme (or Contact, or OpeningHours), the stored nested object has
\* exactly the fields the update passed.
C9_NestedObjectsReplaced ==
    [][\A s \in Sessions :
          (upd[s].pc = "write" /\ upd'[s].pc = "done" /\ upd[s].which = "org")
          => \A k \in DOMAIN upd[s].settings \cap {"Theme", "Contact", "OpeningHours"} :
                /\ store'[OrgKey][k] = upd[s].settings[k]
                /\ DOMAIN store'[OrgKey][k] = DOMAIN upd[s].settings[k]]_vars

\* C9 witness: a stored Theme with Primary and without Secondary
C9_Witness ==
    /\ Exists(store, OrgKey)
    /\ DOMAIN store[OrgKey].Theme = {"Primary"}
    /\ store[OrgKey].Theme.Primary = "#FF0000"

\* C10: a concurrent update is never refused: its write stores exactly the
\* document it computed from its own read, {...read, ...settings}, whatever the
\* store holds by then; a call fails only when a store call of its own fails.
C10_LastWriterWins ==
    [][\A s \in Sessions :
          /\ (upd[s].pc = "write" /\ upd'[s].pc = "done")
                => store'[SettingsKey(upd[s].which)] =
                      Spread(Previous(upd[s]), upd[s].settings)
          /\ (upd[s].pc = "write" /\ upd'[s].pc = "failed")
                => (UpdateWriteFails(s) /\ store' = store)]_vars

\* C10 witness: both sessions have updated OrgSettings, and the stored document
\* is the later one, without the Name the other session had set
C10_Witness ==
    \E s, t \in Sessions :
        /\ s # t
        /\ upd[s].pc = "done" /\ upd[t].pc = "done"
        /\ upd[s].which = "org" /\ upd[t].which = "org"
        /\ "Name" \in DOMAIN upd[t].settings
        /\ upd[t].settings.Name # ""
        /\ store[OrgKey] = Spread(Previous(upd[s]), upd[s].settings)
        /\ store[OrgKey].Name = ""

OwnKey(which) ==
    IF which = "org" THEN <<"Configuration", "OrgSettings">>
    ELSE <<"Configuration", "AppSettings">>

\* C11: OrgSettings and AppSettings are independent.  A successful update of
\* one writes its own document and nothing else (the other settings document,
\* the marker, Notifications, the admin documents and the placeholders are as
\* before); the read of an update and a get look at the own document only, and
\* they fail only in a step in which their own store call fails.
C11_SettingsIndependent ==
    [][\A s \in Sessions :
          LET own == OwnKey(upd'[s].which) IN
          /\ (upd[s].pc = "write" /\ upd'[s].pc = "done")
                => /\ DOMAIN store' = DOMAIN store \cup {own}
                   /\ \A k \in DOMAIN store \ {own} : store'[k] = store[k]
          /\ (upd[s].pc # "write" /\ upd'[s].pc = "write")
                => /\ upd'[s].currentDoc.exists = (own \in DOMAIN store)
                   /\ store' = store
          /\ (upd[s].pc # "failed" /\ upd'[s].pc = "failed")
                => \/ UpdateWriteFails(s)
                   \/ \E x \in PartialsOf(upd'[s].which) :
                          UpdateReadFails(s, upd'[s].which, x)
          /\ (got'[s] # got[s] /\ got'[s].status = "ok")
                => /\ store' = store
                   /\ got'[s].value =
                        (IF OwnKey(got'[s].which) \in DOMAIN store
                         THEN store[OwnKey(got'[s].which)]
                         ELSE DefaultOf(got'[s].which))]_vars

\* C11 witness: on an initialized store updateAppSettings has succeeded, and
\* OrgSettings, Notifications and the marker are as the initialization wrote them
C11_Witness ==
    /\ upd["s1"].pc = "done"
    /\ upd["s1"].which = "app"
    /\ Exists(store, InitKey)
    /\ store[AppKey] # defaultAppSettings
    /\ store[OrgKey] = defaultOrgSettings
    /\ store[NotificationsKey] = defaultNotificationSettings

\* a completion signal reaches the router of session s: the panel's onComplete
\* (after the 2 s timer, or from its mount check on an initialized store), the
\* login page's onLoginSuccess, the configuration form's onComplete
CompletionSignal(s) ==
    \/ InitTimer(s)
    \/ CheckResolves(s, TRUE) /\ Exists(store, InitKey)
    \/ Login(s, TRUE) /\ Exists(store, AdminAuthKey(AuthAdmin.uid))
    \/ FormSaved(s)

\* C12: every completion signal makes the router probe again and leaves the
\* phase to the probe: the handler starts a checkSystemState call and does not
\* set systemState itself.
C12_CompletionReprobes ==
    [][\A s \in Sessions :
          CompletionSignal(s)
          => /\ Len(probes'[s]) = Len(probes[s]) + 1
             /\ router'[s].systemState = router[s].systemState]_vars

HandlerOfPhase(systemState) ==
    CASE systemState = "needs-initialization" -> "InitializationPanel"
      [] systemState = "needs-authentication" -> "LoginPage"
      [] systemState = "needs-configuration" -> "ConfigurationPanel"
      [] systemState = "ready" -> "DashboardRedirect"
      [] systemState = "error" -> "ErrorScreen"
      [] OTHER -> "LoadingScreen"

C14_ReadyIsTerminal ==
    [][\A s \in Clients :
          router[s].systemState = "ready" => router'[s].systemState = "ready"]_vars

\* C15: the error screen stays until the retry button is pressed: while the
\* router shows it, a step that changes systemState or the message is the
\* retry, and the retry starts a checkSystemState call at the marker check.
C15_ErrorUntilRetry ==
    [][\A s \in Clients :
          /\ (Rendered(router[s], auth[s]) = "ErrorScreen" /\ router'[s] # router[s])
                => Retry(s)
          /\ Retry(s)
                => /\ Len(probes'[s]) = Len(probes[s]) + 1
                   /\ probes'[s][Len(probes'[s])].pc = "marker"]_vars

\* the partial names a non-empty Name and a Contact with a non-empty Email
NamesOrganization(settings) ==
    /\ "Name" \in DOMAIN settings /\ settings.Name # ""
    /\ "Contact" \in DOMAIN settings
    /\ "Email" \in DOMAIN settings.Contact /\ settings.Contact.Email # ""

\* the last write to OrgSettings was a successful updateOrgSettings that named
\* the organization
OrganizationSaved ==
    \E t \in Sessions :
        /\ upd[t].pc = "done" /\ upd[t].which = "org"
        /\ ~upd[t].overlapped
        /\ NamesOrganization(upd[t].settings)

\* C16: with the marker and a signed-in session, a probe that reads OrgSettings
\* after a successful updateOrgSettings with a Name and a Contact.Email answers
\* ready, whatever the document held before the update (absent, the defaults,
\* a partially filled document).
C16_ConfiguredAfterUpdate ==
    [][\A s \in Clients, i \in 1..MaxProbes :
          (/\ ProbeOrg(s, i)
           /\ probes[s][i].isAuthenticated
           /\ Exists(store, InitKey)
           /\ OrganizationSaved)
          => router'[s].systemState = "ready"]_vars

\* C16 witness: the probe has answered ready after an update of a store that
\* had no OrgSettings document
C16_Witness ==
    /\ router["s1"].systemState = "ready"
    /\ \E t \in Sessions :
          /\ upd[t].pc = "done" /\ ~upd[t].overlapped
          /\ NamesOrganization(upd[t].settings)
          /\ ~upd[t].currentDoc.exists

\* the collections that hold a placeholder document
PlaceholderCollections(st) ==
    {k[1] : k \in {d \in DOMAIN st : "_placeholder" \in DOMAIN st[d]}}

PlaceholdersIn(st, c) ==
    {d \in DOMAIN st : d[1] = c /\ "_placeholder" \in DOMAIN st[d]}

\* a successful initializeDatabase of session s on an empty store
InitializesEmptyStore(s) ==
    /\ initCall[s].pc = "commit"
    /\ initCall'[s].result = "ok"
    /\ store = EmptyStore

\* the marker and the three settings documents after the call
SeededDocuments(st, email) ==
    /\ st[InitKey].initialized = TRUE
    /\ st[InitKey].initializedBy = email
    /\ st[AppKey] = [AppVersion |-> 1, DefaultLoanDuration |-> 21, GlobalLimits |-> 5,
                     MaintenanceMode |-> TRUE]
    /\ st[NotificationsKey].ActiveNotificationTypes = <<"email", "sms", "whatsapp">>
    /\ st[NotificationsKey].notificationDelays = [overDueReminder |-> 1, reminderBeforeDue |-> 3]
    /\ DOMAIN st[NotificationsKey].predefinedMessages = {"overdue", "reminder", "reservationReady"}
    /\ st[OrgKey].Logo = "" /\ st[OrgKey].Name = "" /\ st[OrgKey].Address = ""
    /\ st[OrgKey].MaximumSimultaneousLoans = 3
    /\ \A d \in {"Monday", "Tuesday", "Wednesday", "Thursday", "Friday"} :
          st[OrgKey].OpeningHours[d] = "{\"open\": \"08:00\", \"close\": \"18:00\"}"
    /\ st[OrgKey].OpeningHours.Saturday = "{\"open\": \"10:00\", \"close\": \"18:00\"}"
    /\ st[OrgKey].OpeningHours.Sunday = "{\"open\": \"closed\", \"close\": \"closed\"}"

\* C17 as stated: after a successful initializeDatabase on an empty store the
\* marker and the settings documents are the seeded ones, and the placeholder
\* documents are one in each of the five business collections (books, users,
\* theses, departments, courses) and none anywhere else.
C17_PlaceholdersInFiveCollections ==
    [][\A s \in Sessions :
          InitializesEmptyStore(s)
          => /\ SeededDocuments(store', initCall[s].adminData.email)
             /\ PlaceholderCollections(store') =
                  {"BiblioBooks", "BiblioUser", "BiblioThesis", "Departements",
                   "OnlineCourses"}
             /\ \A c \in PlaceholderCollections(store') :
                   Cardinality(PlaceholdersIn(store', c)) = 1]_vars

\* C17 amended: the same, with the placeholder documents one in each of the
\* six collections BiblioAdmin, BiblioBooks, BiblioThesis, BiblioUser,
\* Departements and OnlineCourses, none in Configuration or admin, and nothing
\* else in the store but the administrator document.
C17_PostState ==
    [][\A s \in Sessions :
          InitializesEmptyStore(s)
          => /\ SeededDocuments(store', initCall[s].adminData.email)
             /\ PlaceholderCollections(store') =
                  {"BiblioAdmin", "BiblioBooks", "BiblioUser", "BiblioThesis",
                   "Departements", "OnlineCourses"}
             /\ \A c \in PlaceholderCollections(store') :
                   Cardinality(PlaceholdersIn(store', c)) = 1
             /\ {k \in DOMAIN store' : k[1] = "Configuration"} =
                  {InitKey, AppKey, OrgKey, NotificationsKey}
             /\ {k \in DOMAIN store' : k[1] = "admin"} =
                  {<<"admin", initCall[s].adminData.email>>}
             /\ Cardinality(DOMAIN store') = 11]_vars

\* C17 witness: an initializeDatabase call has succeeded and the store holds
\* its eleven documents, one of them the placeholder of BiblioAdmin
C17_Witness ==
    /\ \E s \in Sessions : initCall[s].result = "ok"
    /\ Cardinality(DOMAIN store) = 11
    /\ Exists(store, <<"BiblioAdmin", "_placeholder">>)
    /\ store[InitKey].initialized

\* C18: in phase ready the user ends up on the dashboard: when the router's
\* push of /dashboard is carried out, the tab shows /dashboard (the middleware
\* does not answer it with the page of the phase router again).
C18_ReadyReachesDashboard ==
    [][\A s \in Clients :
          (router[s].systemState = "ready" /\ nav[s] = DashboardPath /\ nav'[s] = NoNav)
          => page'[s] = DashboardPath]_vars

\* the addresses and the colours, among those typed, that are well formed
ValidEmails == {"x@y.com"}

ValidColours == {"#3B82F6", "#8B5CF6", "#FFF"}

\* the form data fails the client-side validation
FailsValidation(d) ==
    \/ d.Name = ""
    \/ d.Address = ""
    \/ d.Contact.Email \notin ValidEmails
    \/ d.Contact.Phone = ""
    \/ d.MaximumSimultaneousLoans \notin 1..10
    \/ d.Theme.Primary \notin ValidColours
    \/ d.Theme.Secondary \notin ValidColours

\* C19: a save of the configuration form whose data fails the client-side
\* validation reads and writes nothing in the store and does not fire the
\* configuration-complete callback (the phase and the navigation are left
\* alone); and every document the form writes is a configured one
C19_InvalidFormNeverSaves ==
    [][/\ \A s \in Clients, d \in FormInputs :
             (FormSubmit(s, d) /\ FailsValidation(d))
             => UNCHANGED <<store, upd, got, calls, router, nav, page>>
       /\ \A s \in Clients : FormSaved(s) => OrgConfigured(store')]_vars

\* C19 witness: a form with an empty Name was rejected: its errors are shown,
\* no call was started
C19_Witness ==
    \E s \in Clients :
        /\ "Name" \in form[s].errors
        /\ upd[s].pc = "idle"
        /\ calls[s] = 0
        /\ router[s].systemState = "needs-configuration"

\* the underlying store or auth call of a site of session s fails in this step
SiteCallFails(s) ==
    \/ FormSaveFails(s)
    \/ AppSaveFails(s)
    \/ CommitFails(s)
    \/ LoginRejected(s)
    \/ Login(s, FALSE)
    \/ SignOutFails(s)
    \/ \E coded \in BOOLEAN : ProfileCallFails(s, coded)

\* the notification and the busy flag of the site whose call fails in this step
FailedSite(s) ==
    IF FormSaveFails(s) THEN [notified |-> form'[s].notified, busy |-> form'[s].isSaving]
    ELSE IF AppSaveFails(s)
         THEN [notified |-> appForm'[s].notified, busy |-> appForm'[s].isSaving]
    ELSE IF CommitFails(s)
         THEN [notified |-> initCall'[s].notified, busy |-> panel'[s].isLoading]
    ELSE IF LoginRejected(s) \/ Login(s, FALSE) \/ SignOutFails(s)
         THEN [notified |-> signing'[s].notified, busy |-> signing'[s].isLoading]
    ELSE [notified |-> profile'[s].notified, busy |-> profile'[s].isLoading]

\* C20: at every async action site (org-settings save, app-settings save,
\* initialize, login, sign-out, profile update, password change, email
\* change), when the underlying store or auth call fails, an error
\* notification is emitted and the site's busy flag is reset to false
C20_FailuresNotifiedAndReset ==
    [][\A s \in Clients :
          SiteCallFails(s)
          => FailedSite(s) = [notified |-> "error", busy |-> FALSE]]_vars

\* checkSystemState call i of session s resolves in this step
ProbeResolves(s, i) ==
    /\ i \in 1..Len(probes[s])
    /\ Len(probes'[s]) < Len(probes[s])
    /\ \/ \E ok \in BOOLEAN : ProbeMarker(s, i, ok)
       \/ ProbeOrg(s, i)
       \/ ProbeOrgFails(s, i)

\* C21: of two overlapping checkSystemState calls the one started second
\* decides the phase: a call that resolves after a call started later than it
\* has resolved does not change the phase any more
C21_LaterProbeDecides ==
    [][\A s \in Clients, i \in 1..MaxProbes :
          (ProbeResolves(s, i) /\ probes[s][i].overtaken)
          => router'[s].systemState = router[s].systemState]_vars

\* the administrator of session s has signed in on the login page
LoggedIn(s) == signing[s].notified = "success" /\ currentUser[s] # NoUser

MaxUploads == 2

Files == {"logo.png", "cover.jpg"}

\* process.env.NEXT_PUBLIC_CLOUDINARY_CLOUD_NAME || '' and ..._UPLOAD_PRESET || ''
Envs == [cloudName : {"", "demo"}, uploadPreset : {"", "library"}]

\* reader.readAsDataURL(file): the file as an inline data URL
DataUrl(file) == <<"data:", file>>

\* data.secure_url of Cloudinary's answer
SecureUrl(file) == <<"https://res.cloudinary.com/", env.cloudName, file>>

\* if (!cloudName || !uploadPreset)
ConfigMissing == env.cloudName = "" \/ env.uploadPreset = ""

\* updateState: setState(prev => ({ ...prev, ...updates }))
updateState(u, updates) == Spread(u, updates)

\* the call returns or throws: it leaves the calls in flight
Settled(u, i, outcome, value, converted) ==
    [u EXCEPT !.calls = RemoveAt(u.calls, i),
              !.last = [outcome |-> outcome, value |-> value,
                        degraded |-> u.calls[i].degraded, converted |-> converted]]

\* updateState({ isUploading: false, uploadProgress: 100 }); return result
Returned(u, i, outcome, value, converted) ==
    Settled(updateState(u, [isUploading |-> FALSE, uploadProgress |-> 100]),
            i, outcome, value, converted)

\* a bug: the catch block records the error and leaves isUploading as it is
RejectedBusy(u, i, message) ==
    Settled(updateState(u, [error |-> message]), i, "rejected", <<>>, "failed")

\* updateState({ isUploading: false, error: ... }); throw
Rejected(u, i, message) ==
    Settled(updateState(u, [isUploading |-> FALSE, error |-> message]),
            i, "rejected", <<>>, "failed")

\* uploadFile(file, options) up to its first await
UploadFile(s, file) ==
    /\ Len(upload[s].calls) < MaxUploads
    /\ upload' = [upload EXCEPT ![s] =
          [updateState(upload[s], [isUploading |-> TRUE, uploadProgress |-> 0,
                                   error |-> Null])
              EXCEPT !.calls = Append(@, [file |-> file,
                                          pc |-> IF ConfigMissing THEN "base64" ELSE "fetch",
                                          degraded |-> ConfigMissing])]]
    /\ UNCHANGED <<store, settingsVars, authVars, bootVars, uiVars, loginPage, env, authHook, timeInput>>

\* await getBase64Fallback(file) of the missing-configuration branch
Base64Only(s, i, ok) ==
    /\ i <= Len(upload[s].calls)
    /\ upload[s].calls[i].pc = "base64"
    /\ upload' = [upload EXCEPT ![s] =
          IF ok THEN Returned(@, i, "dataUrl", DataUrl(@.calls[i].file), "done")
          ELSE Rejected(@, i, "Base64 conversion failed")]
    /\ UNCHANGED <<store, settingsVars, authVars, bootVars, uiVars, loginPage, env, authHook, timeInput>>

\* await fetch(uploadUrl, ...): a response that is ok, one that is not, or a
\* network error thrown into the catch block
Fetch(s, i, answer) ==
    /\ i <= Len(upload[s].calls)
    /\ upload[s].calls[i].pc = "fetch"
    /\ upload' = [upload EXCEPT ![s].calls[i] =
          CASE answer = "ok" -> [@ EXCEPT !.pc = "json"]
            [] answer = "notOk" -> [@ EXCEPT !.pc = "errorJson", !.degraded = TRUE]
            [] OTHER -> [@ EXCEPT !.pc = "fallback", !.degraded = TRUE]]
    /\ UNCHANGED <<store, settingsVars, authVars, bootVars, uiVars, loginPage, env, authHook, timeInput>>

\* const data = await response.json() of an ok response; a body that does not
\* parse throws into the catch block
ResponseJson(s, i, parsed) ==
    /\ i <= Len(upload[s].calls)
    /\ upload[s].calls[i].pc = "json"
    /\ upload' = [upload EXCEPT ![s] =
          IF parsed THEN Returned(@, i, "url", SecureUrl(@.calls[i].file), "none")
          ELSE [@ EXCEPT !.calls[i].pc = "fallback", !.calls[i].degraded = TRUE]]
    /\ UNCHANGED <<store, settingsVars, authVars, bootVars, uiVars, loginPage, env, authHook, timeInput>>

\* const errorData = await response.json() of a failed response: a preset or
\* whitelist message, another message, or a body that does not parse
ErrorJson(s, i, message) ==
    /\ i <= Len(upload[s].calls)
    /\ upload[s].calls[i].pc = "errorJson"
    /\ upload' = [upload EXCEPT ![s].calls[i].pc =
                     IF message = "preset" THEN "presetBase64" ELSE "fallback"]
    /\ UNCHANGED <<store, settingsVars, authVars, bootVars, uiVars, loginPage, env, authHook, timeInput>>

\* await getBase64Fallback(file) inside the try block; its failure is caught by
\* the same catch block as every other error
PresetBase64(s, i, ok) ==
    /\ i <= Len(upload[s].calls)
    /\ upload[s].calls[i].pc = "presetBase64"
    /\ upload' = [upload EXCEPT ![s] =
          IF ok THEN Returned(@, i, "dataUrl", DataUrl(@.calls[i].file), "done")
          ELSE [@ EXCEPT !.calls[i].pc = "fallback"]]
    /\ UNCHANGED <<store, settingsVars, authVars, bootVars, uiVars, loginPage, env, authHook, timeInput>>

\* the catch block: await getBase64Fallback(file)
Fallback(s, i, ok) ==
    /\ i <= Len(upload[s].calls)
    /\ upload[s].calls[i].pc = "fallback"
    /\ upload' = [upload EXCEPT ![s] =
          IF ok THEN Returned(@, i, "dataUrl", DataUrl(@.calls[i].file), "done")
          ELSE Rejected(@, i, "Upload and fallback failed")]
    /\ UNCHANGED <<store, settingsVars, authVars, bootVars, uiVars, loginPage, env, authHook, timeInput>>

\* the signed-in administrator's tab on any of the four builds
InitUpload ==
    \E e \in Envs :
        /\ Tab(InitializedStore, {AuthAdmin.uid}, AuthAdmin.uid, TRUE,
               "needs-configuration", Unmounted, FALSE, RootPath)
        /\ env = e
        /\ upload = [s \in Sessions |-> IdleUpload]
        /\ authHook = [s \in Sessions |-> FreshHook]
        /\ timeInput = [s \in Sessions |-> FreshTimeInput]

NextUpload ==
    \/ \E s \in Clients, file \in Files : UploadFile(s, file)
    \/ \E s \in Clients, i \in 1..MaxUploads, ok \in BOOLEAN : Base64Only(s, i, ok)
    \/ \E s \in Clients, i \in 1..MaxUploads, answer \in {"ok", "notOk", "throws"} :
          Fetch(s, i, answer)
    \/ \E s \in Clients, i \in 1..MaxUploads, parsed \in BOOLEAN : ResponseJson(s, i, parsed)
    \/ \E s \in Clients, i \in 1..MaxUploads, message \in {"preset", "other", "throws"} :
          ErrorJson(s, i, message)
    \/ \E s \in Clients, i \in 1..MaxUploads, ok \in BOOLEAN : PresetBase64(s, i, ok)
    \/ \E s \in Clients, i \in 1..MaxUploads, ok \in BOOLEAN : Fallback(s, i, ok)

SpecUpload == InitUpload /\ [][NextUpload]_vars

\* an uploadFile call of session s returns or throws in this step
UploadSettles(s) == Len(upload'[s].calls) < Len(upload[s].calls)

\* C23: whenever an uploadFile call settles, isUploading is false; it has thrown
\* only if the base64 conversion failed; with the configuration missing or the
\* upload request failed and the conversion done it has returned the file as a
\* data URL; otherwise it has returned Cloudinary's URL
C23_UploadDegrades ==
    [][\A s \in Clients :
          UploadSettles(s) =>
              LET r == upload'[s].last
              IN /\ ~upload'[s].isUploading
                 /\ r.outcome = "rejected" => r.converted = "failed"
                 /\ (r.degraded /\ r.converted = "done") =>
                        /\ r.outcome = "dataUrl"
                        /\ \E file \in Files : r.value = DataUrl(file)
                 /\ ~r.degraded => /\ r.outcome = "url"
                                   /\ \E file \in Files : r.value = SecureUrl(file)
                 /\ r.outcome \in {"url", "dataUrl", "rejected"}]_vars

\* C23 witness: on a configured build an upload whose request failed has
\* returned the data URL while the hook shows no upload in progress
C23_Witness ==
    \E s \in Clients :
        /\ ~ConfigMissing
        /\ upload[s].last.outcome = "dataUrl"
        /\ upload[s].last.degraded
        /\ upload[s].calls = <<>>
        /\ ~upload[s].isUploading

(***************************************************************************)
(* The administrator documents: 'admin'/<email> written at bootstrap,      *)
(* 'SuperAdmin'/<uid> written by AdminAuth, 'admin'/<uid> updated by the   *)
(* profile page.                                                           *)
(***************************************************************************)
\* what a caller can hand to initializeDatabase at run time: the parameter's
\* type leaves role out, the object may carry one all the same
CallerInputs == Admins \cup {[name |-> "Eve", email |-> "e@b.com", role |-> "admin"]}

IsAdminDocument(key) == key[1] \in {"admin", "SuperAdmin"} /\ key[2] # "_placeholder"

NextRoles ==
    \/ \E s \in Clients : Navigate(s)
    \/ \E s \in Clients, ok \in BOOLEAN : CheckResolves(s, ok)
    \/ \E s \in Clients, a \in CallerInputs : SubmitAdmin(s, a)
    \/ \E s \in Clients : CommitOk(s)
    \/ \E s \in Clients : CommitFails(s)
    \/ \E s \in Clients : InitTimer(s)
    \/ \E s \in Clients, ok \in BOOLEAN : CreateAdminAccount(s, ok)
    \/ \E s \in Clients : LoginSubmit(s)
    \/ \E s \in Clients : LoginRejected(s)
    \/ \E s \in Clients, ok \in BOOLEAN : Login(s, ok)
    \/ \E s \in Clients : SignOutSubmit(s)
    \/ \E s \in Clients : SignOutOk(s)
    \/ \E s \in Clients : SignOutFails(s)
    \/ \E s \in Clients, op \in ProfileOps : ProfileSubmit(s, op)
    \/ \E s \in Clients : ProfileCallOk(s)
    \/ \E s \in Clients, coded \in BOOLEAN : ProfileCallFails(s, coded)

SpecRoles == InitSites /\ [][NextRoles]_vars

\* C24: every administrator document of the store has the role super_admin,
\* whatever the caller of the bootstrap passed and whatever was done since
C24_RoleIsSuperAdmin ==
    \A key \in DOMAIN store :
        IsAdminDocument(key) =>
            /\ "role" \in DOMAIN store[key]
            /\ store[key].role = "super_admin"

\* C24 witness: the bootstrap was called with an input that carries the role
\* admin and has written that administrator's document
C24_Witness ==
    \E s \in Clients :
        /\ initCall[s].result = "ok"
        /\ "role" \in DOMAIN initCall[s].adminData
        /\ Exists(store, <<"admin", initCall[s].adminData.email>>)

(***************************************************************************)
(* Bootstrap and sign-in.  initializeDatabase records the administrator as *)
(* 'admin'/<email> and creates no account at the auth provider; signIn     *)
(* needs the provider's account and reads 'SuperAdmin'/<uid>.              *)
(***************************************************************************)
\* AdminAuth.signIn(email, password) resolves for this email: the provider has
\* the account and the document signIn reads for its uid exists
SignInAccepts(email) ==
    /\ email = AuthAdmin.email
    /\ AuthAdmin.uid \in accounts
    /\ Exists(store, AdminAuthKey(AuthAdmin.uid))

\* the flows the screens offer: every action of Next but createAdminAccount,
\* which the hook exposes and no component calls
NextBoot ==
    \/ \E s \in Clients, ok \in BOOLEAN : AuthCallback(s, ok)
    \/ \E s \in Clients, ok \in BOOLEAN : LoginPageCallback(s, ok)
    \/ \E s \in Clients : LoginSubmit(s)
    \/ \E s \in Clients : LoginRejected(s)
    \/ \E s \in Clients, ok \in BOOLEAN : Login(s, ok)
    \/ \E s \in Clients : SignOut(s)
    \/ \E s \in Clients, i \in 1..MaxProbes, ok \in BOOLEAN : ProbeMarker(s, i, ok)
    \/ \E s \in Clients, i \in 1..MaxProbes : ProbeOrg(s, i)
    \/ \E s \in Clients, i \in 1..MaxProbes : ProbeOrgFails(s, i)
    \/ \E s \in Clients : Retry(s)
    \/ \E s \in Clients : Navigate(s)
    \/ \E s \in Clients, ok \in BOOLEAN : CheckResolves(s, ok)
    \/ \E s \in Clients, a \in BootAdmins : SubmitAdmin(s, a)
    \/ \E s \in Clients : CommitOk(s)
    \/ \E s \in Clients : CommitFails(s)
    \/ \E s \in Clients : InitTimer(s)
    \/ \E s \in Clients, d \in {FormData} : FormSubmit(s, d)
    \/ \E s \in Clients : FormSaved(s)
    \/ \E s \in Clients : FormSaveFails(s)

SpecBoot == Init /\ [][NextBoot]_vars

\* under SpecBoot nobody is ever signed in and the router never shows Ready
NeverReady ==
    \A s \in Clients :
        /\ currentUser[s] = NoUser
        /\ router[s].systemState # "ready"

\* C25: once the bootstrap has committed, the administrator it recorded is one
\* that sign-in accepts
C25_BootstrapAdminCanSignIn ==
    \A s \in Clients :
        initCall[s].result = "ok" => SignInAccepts(initCall[s].adminData.email)

(***************************************************************************)
(* Two browser sessions on one initialized store.  s1 is the signed-in     *)
(* administrator in front of the ConfigurationPanel; the other session     *)
(* opened the application while the store was still empty, and its         *)
(* InitializationPanel still shows the administrator form.                 *)
(***************************************************************************)
Latecomer == CHOOSE s \in Sessions : s \notin Clients

InitStale ==
    /\ store = InitializedStore
    /\ upd = [s \in Sessions |-> IdleUpdate]
    /\ got = [s \in Sessions |-> [status |-> "none", which |-> "org", value |-> NoData, error |-> ""]]
    /\ calls = [s \in Sessions |-> 0]
    /\ accounts = {AuthAdmin.uid}
    /\ currentUser = [s \in Sessions |-> IF s \in Clients THEN AuthAdmin.uid ELSE NoUser]
    /\ authCb = [s \in Sessions |-> FALSE]
    /\ auth = [s \in Sessions |-> [isLoading |-> FALSE, isAuthenticated |-> s \in Clients]]
    /\ router = [s \in Sessions |->
                  [systemState |-> IF s \in Clients THEN "needs-configuration"
                                   ELSE "needs-initialization",
                   error |-> Null]]
    /\ probes = [s \in Sessions |-> <<>>]
    /\ panel = [s \in Sessions |->
                 IF s \in Clients THEN Unmounted
                 ELSE [currentStep |-> "admin-setup", isLoading |-> FALSE, error |-> Null]]
    /\ check = [s \in Sessions |-> FALSE]
    /\ initCall = [s \in Sessions |-> IdleInit]
    /\ page = [s \in Sessions |-> RootPath]
    /\ nav = [s \in Sessions |-> NoNav]
    /\ form = [s \in Sessions |-> IdleForm]
    /\ signing = [s \in Sessions |-> IdleSigning]
    /\ appForm = [s \in Sessions |-> IdleAppForm]
    /\ profile = [s \in Sessions |-> IdleProfile]
    /\ loginPage = [s \in Sessions |-> NoLoginPage]
    /\ env = Configured
    /\ upload = [s \in Sessions |-> IdleUpload]
    /\ authHook = [s \in Sessions |-> FreshHook]
    /\ timeInput = [s \in Sessions |-> FreshTimeInput]

NextStale ==
    \/ \E s \in Clients, d \in {FormData} : FormSubmit(s, d)
    \/ \E s \in Clients : FormSaved(s)
    \/ \E s \in Clients : FormSaveFails(s)
    \/ \E s \in Clients, d \in AppFormInputs : AppSubmit(s, d)
    \/ \E s \in Clients : AppSaved(s)
    \/ \E s \in Clients : AppSaveFails(s)
    \/ \E s \in Clients : SignOut(s)
    \/ \E s \in Clients : LoginSubmit(s)
    \/ \E s \in Clients : Login(s, TRUE)
    \/ \E s \in Clients : AuthCallback(s, TRUE)
    \/ \E s \in Clients : LoginPageCallback(s, TRUE)
    \/ \E s \in Sessions, i \in 1..MaxProbes : ProbeMarker(s, i, TRUE)
    \/ \E s \in Sessions, i \in 1..MaxProbes : ProbeOrg(s, i)
    \/ \E s \in Sessions : Navigate(s)
    \/ \E a \in BootAdmins : SubmitAdmin(Latecomer, a)
    \/ CommitOk(Latecomer)
    \/ CommitFails(Latecomer)
    \/ InitTimer(Latecomer)

SpecStale == InitStale /\ [][NextStale]_vars

\* C26: no step takes the store from a configured OrgSettings (Name and
\* Contact.Email non-empty) to one that is not configured
C26_StaysConfigured ==
    [][OrgConfigured(store) => OrgConfigured(store')]_vars

(***************************************************************************)
(* useAuth: the listener's callback and the operations the hook returns,   *)
(* each an asynchronous function whose awaited call is one step.  All of   *)
(* them write the one state of the hook through updateState.               *)
(***************************************************************************)
\* the AdminUser the AdminAuth calls return: the uid and the document's data
AdminUser == [uid |-> AuthAdmin.uid, role |-> "super_admin"]

\* updateState({ user: adminUser, isAuthenticated: true, isLoading: false })
HookSignedIn(h) ==
    Spread(h, [user |-> AdminUser, isAuthenticated |-> TRUE, isLoading |-> FALSE])

\* updateState({ user: null, isAuthenticated: false, isLoading: false })
HookSignedOut(h) ==
    Spread(h, [user |-> NoAdminUser, isAuthenticated |-> FALSE, isLoading |-> FALSE])

\* catch (error) { throw new Error('Erreur de connexion') } of AdminAuth.signIn
SignInError == "Erreur de connexion"

\* a bug: without an administrator the callback only updates the state
CallbackNoAdminStays(h) == [HookSignedOut(h) EXCEPT !.cb = "idle"]

\* without an administrator the callback goes on to await AdminAuth.signOut()
CallbackNoAdmin(h) == [h EXCEPT !.cb = "signOut"]

\* the other tuples an action of the hook leaves alone
besideHook == <<settingsVars, auth, bootVars, uiVars, loginPage, env, upload, timeInput>>

\* the listener's callback is invoked: without a provider user it updates the
\* state at once, with one it calls getCurrentAdmin, which takes auth.currentUser
HookNotified(s) ==
    /\ authCb[s]
    /\ authHook[s].cb = "idle"
    /\ authCb' = [authCb EXCEPT ![s] = FALSE]
    /\ authHook' = [authHook EXCEPT ![s] =
          IF currentUser[s] = NoUser THEN HookSignedOut(@)
          ELSE [@ EXCEPT !.cb = "getCurrentAdmin"]]
    /\ UNCHANGED <<store, accounts, currentUser, besideHook>>

\* the callback's getCurrentAdmin answers: the administrator, or null when the
\* document is missing or the read failed
HookAdminRead(s, readOk) ==
    /\ authHook[s].cb = "getCurrentAdmin"
    /\ authHook' = [authHook EXCEPT ![s] =
          IF readOk /\ Exists(store, AdminAuthKey(AuthAdmin.uid))
          THEN [HookSignedIn(@) EXCEPT !.cb = "idle"]
          ELSE CallbackNoAdmin(@)]
    /\ UNCHANGED <<store, accounts, currentUser, authCb, besideHook>>

\* the callback's AdminAuth.signOut() answers; when it throws, the catch block
\* writes the same state
HookCallbackSignOut(s, ok) ==
    /\ authHook[s].cb = "signOut"
    /\ authHook' = [authHook EXCEPT ![s] = [HookSignedOut(@) EXCEPT !.cb = "idle"]]
    /\ currentUser' = [currentUser EXCEPT ![s] = IF ok THEN NoUser ELSE @]
    /\ authCb' = [authCb EXCEPT ![s] = @ \/ (ok /\ currentUser[s] # NoUser)]
    /\ UNCHANGED <<store, accounts, besideHook>>

\* signIn up to its await
HookSignIn(s) ==
    /\ authHook[s].signIn = "idle"
    /\ authHook' = [authHook EXCEPT ![s] =
                       [Spread(@, [isLoading |-> TRUE]) EXCEPT !.signIn = "signIn"]]
    /\ UNCHANGED <<store, accounts, currentUser, authCb, besideHook>>

\* AdminAuth.signIn answers: the provider rejects the credentials, or it opens
\* the session and the administrator document is read and written, or is not
HookSignInAnswers(s, accepted, docOk) ==
    /\ authHook[s].signIn = "signIn"
    /\ accepted => AuthAdmin.uid \in accounts
    /\ LET key == AdminAuthKey(AuthAdmin.uid)
           ok == accepted /\ docOk /\ Exists(store, key)
       IN /\ currentUser' = [currentUser EXCEPT ![s] = IF accepted THEN AuthAdmin.uid ELSE @]
          /\ authCb' = [authCb EXCEPT ![s] = @ \/ accepted]
          /\ store' = IF ok THEN SetDoc(store, key, Spread(store[key], [lastLogin |-> "now"]))
                      ELSE store
          /\ authHook' = [authHook EXCEPT ![s] =
                [(IF ok THEN HookSignedIn(@) ELSE Spread(@, [isLoading |-> FALSE]))
                    EXCEPT !.signIn = "idle",
                           !.signInError = IF ok THEN Null ELSE SignInError]]
    /\ UNCHANGED <<accounts, besideHook>>

\* signOut up to its await
HookSignOut(s) ==
    /\ authHook[s].signOut = "idle"
    /\ authHook' = [authHook EXCEPT ![s] =
                       [Spread(@, [isLoading |-> TRUE]) EXCEPT !.signOut = "signOut"]]
    /\ UNCHANGED <<store, accounts, currentUser, authCb, besideHook>>

\* AdminAuth.signOut answers
HookSignOutAnswers(s, ok) ==
    /\ authHook[s].signOut = "signOut"
    /\ currentUser' = [currentUser EXCEPT ![s] = IF ok THEN NoUser ELSE @]
    /\ authCb' = [authCb EXCEPT ![s] = @ \/ (ok /\ currentUser[s] # NoUser)]
    /\ authHook' = [authHook EXCEPT ![s] =
          [(IF ok THEN HookSignedOut(@) ELSE Spread(@, [isLoading |-> FALSE]))
              EXCEPT !.signOut = "idle"]]
    /\ UNCHANGED <<store, accounts, besideHook>>

\* createAdminAccount up to its await
HookCreate(s) ==
    /\ authHook[s].create = "idle"
    /\ authHook' = [authHook EXCEPT ![s] =
                       [Spread(@, [isLoading |-> TRUE]) EXCEPT !.create = "create"]]
    /\ UNCHANGED <<store, accounts, currentUser, authCb, besideHook>>

\* AdminAuth.createAdminAccount answers: the provider refuses an email it has,
\* or creates the account and signs it in, and the setDoc succeeds or fails
HookCreateAnswers(s, docOk) ==
    /\ authHook[s].create = "create"
    /\ LET created == AuthAdmin.uid \notin accounts
           ok == created /\ docOk
       IN /\ accounts' = accounts \cup {AuthAdmin.uid}
          /\ currentUser' = [currentUser EXCEPT ![s] = IF created THEN AuthAdmin.uid ELSE @]
          /\ authCb' = [authCb EXCEPT ![s] = @ \/ created]
          /\ store' = IF ok
                      THEN SetDoc(store, AdminAuthKey(AuthAdmin.uid),
                                  [email |-> AuthAdmin.email, name |-> AuthAdmin.name,
                                   role |-> "super_admin", createdAt |-> "now"])
                      ELSE store
          /\ authHook' = [authHook EXCEPT ![s] =
                [(IF ok THEN HookSignedIn(@) ELSE Spread(@, [isLoading |-> FALSE]))
                    EXCEPT !.create = "idle"]]
    /\ UNCHANGED besideHook

\* refreshUser with a provider user, up to the await of getCurrentAdmin
HookRefresh(s) ==
    /\ authHook[s].refresh = "idle"
    /\ currentUser[s] # NoUser
    /\ authHook' = [authHook EXCEPT ![s].refresh = "getCurrentAdmin"]
    /\ UNCHANGED <<store, accounts, currentUser, authCb, besideHook>>

\* its getCurrentAdmin answers: if (adminUser) updateState({ user: adminUser })
HookRefreshAnswers(s, readOk) ==
    /\ authHook[s].refresh = "getCurrentAdmin"
    /\ authHook' = [authHook EXCEPT ![s] =
          [(IF readOk /\ Exists(store, AdminAuthKey(AuthAdmin.uid))
            THEN Spread(@, [user |-> AdminUser]) ELSE @)
              EXCEPT !.refresh = "idle"]]
    /\ UNCHANGED <<store, accounts, currentUser, authCb, besideHook>>

NextAuth ==
    \/ \E s \in Clients : HookNotified(s)
    \/ \E s \in Clients, readOk \in BOOLEAN : HookAdminRead(s, readOk)
    \/ \E s \in Clients, ok \in BOOLEAN : HookCallbackSignOut(s, ok)
    \/ \E s \in Clients : HookSignIn(s)
    \/ \E s \in Clients, accepted \in BOOLEAN, docOk \in BOOLEAN :
          HookSignInAnswers(s, accepted, docOk)
    \/ \E s \in Clients : HookSignOut(s)
    \/ \E s \in Clients, ok \in BOOLEAN : HookSignOutAnswers(s, ok)
    \/ \E s \in Clients : HookCreate(s)
    \/ \E s \in Clients, docOk \in BOOLEAN : HookCreateAnswers(s, docOk)
    \/ \E s \in Clients : HookRefresh(s)
    \/ \E s \in Clients, readOk \in BOOLEAN : HookRefreshAnswers(s, readOk)

SpecAuth == Init /\ [][NextAuth]_vars

\* C27: the hook's isAuthenticated is true exactly when its user is not null, and
\* it is false while the provider's user has no administrator document
C27_AuthenticatedIffUser ==
    \A s \in Clients :
        /\ authHook[s].isAuthenticated <=> authHook[s].user # NoAdminUser
        /\ (currentUser[s] # NoUser /\ ~Exists(store, AdminAuthKey(currentUser[s])))
               => ~authHook[s].isAuthenticated

(***************************************************************************)
(* Sign-in of a provider account that has no administrator document.       *)
(* The provider's calls and the store's reads answer, and a callback or an *)
(* awaited call that can run does run.                                     *)
(***************************************************************************)
InitOrphan ==
    \E st \in {EmptyStore, WithoutDoc(InitializedStore, AdminAuthKey(AuthAdmin.uid))} :
        /\ Tab(st, {AuthAdmin.uid}, NoUser, FALSE, "loading", Unmounted, FALSE, RootPath)
        /\ env = Configured
        /\ upload = [s \in Sessions |-> IdleUpload]
        /\ authHook = [s \in Sessions |->
                         IF s \in Clients THEN HookSignedOut(FreshHook) ELSE FreshHook]
        /\ timeInput = [s \in Sessions |-> FreshTimeInput]

\* a step of the listener's callback
CallbackStep(s) ==
    HookNotified(s) \/ HookAdminRead(s, TRUE) \/ HookCallbackSignOut(s, TRUE)

NextOrphan ==
    \/ \E s \in Clients : CallbackStep(s)
    \/ \E s \in Clients : HookSignIn(s)
    \/ \E s \in Clients, accepted \in BOOLEAN : HookSignInAnswers(s, accepted, TRUE)
    \/ \E s \in Clients : HookSignOut(s)
    \/ \E s \in Clients : HookSignOutAnswers(s, TRUE)
    \/ \E s \in Clients : HookCreate(s)
    \/ \E s \in Clients : HookCreateAnswers(s, TRUE)
    \/ \E s \in Clients : HookRefresh(s)
    \/ \E s \in Clients : HookRefreshAnswers(s, TRUE)

SpecOrphan ==
    /\ InitOrphan
    /\ [][NextOrphan]_vars
    /\ \A s \in Clients : WF_vars(CallbackStep(s))

\* AdminAuth.signIn of session s answers in this step with the provider's
\* session opened and no administrator document for its user
OrphanSignIn(s) ==
    /\ authHook[s].signIn = "signIn"
    /\ authHook'[s].signIn = "idle"
    /\ currentUser'[s] # NoUser
    /\ ~Exists(store', AdminAuthKey(currentUser'[s]))

\* the hook of s is signed out and the provider has no session for it
NoSessionLeft(s) ==
    /\ currentUser[s] = NoUser
    /\ ~authHook[s].isAuthenticated
    /\ authHook[s].user = NoAdminUser

Digits == <<"0", "1", "2", "3", "4", "5", "6", "7", "8", "9">>

DigitsUpTo(n) == {Digits[i] : i \in 1..(n + 1)}

DigitValue(c) == (CHOOSE i \in 1..10 : Digits[i] = c) - 1

\* /^([01]?[0-9]|2[0-3]):[0-5][0-9]$/
MatchesTime(t) ==
    \/ /\ Len(t) = 5
       /\ \/ t[1] \in DigitsUpTo(1) /\ t[2] \in DigitsUpTo(9)
          \/ t[1] = "2" /\ t[2] \in DigitsUpTo(3)
       /\ t[3] = ":"
       /\ t[4] \in DigitsUpTo(5)
       /\ t[5] \in DigitsUpTo(9)
    \/ /\ Len(t) = 4
       /\ t[1] \in DigitsUpTo(9)
       /\ t[2] = ":"
       /\ t[3] \in DigitsUpTo(5)
       /\ t[4] \in DigitsUpTo(9)

\* open: z.string().regex(/^([01]?[0-9]|2[0-3]):[0-5][0-9]$/)
MatchesOpen(t) == MatchesTime(t)

\* close: z.string().regex(/^([01]?[0-9]|2[0-3]):[0-5][0-9]$|^closed$/)
MatchesClose(t) == MatchesTime(t) \/ t = closed

\* new Date(`1970-01-01T${t}:00`) for a time with two digits of hours, in
\* minutes since midnight.  Hours of one digit, which the pattern admits, are
\* not among the inputs: what new Date makes of them depends on the engine.
DateOf(t) ==
    (10 * DigitValue(t[1]) + DigitValue(t[2])) * 60
        + 10 * DigitValue(t[4]) + DigitValue(t[5])

\* .refine(data => ...)
refine(data) ==
    IF data.open = closed \/ data.close = closed
    THEN data.open = closed /\ data.close = closed
    ELSE DateOf(data.open) < DateOf(data.close)

\* openingHoursSchema.safeParse(data).success: the refinement is evaluated
\* only when both fields match their pattern
openingHoursSchema(data) ==
    /\ MatchesOpen(data.open)
    /\ MatchesClose(data.close)
    /\ refine(data)

\* JSON.stringify({open, close}) and JSON.parse of such a text
JsonStringify(hours) == <<"{", "open", hours.open, "close", hours.close, "}">>

JsonParse(text) == [open |-> text[3], close |-> text[5]]

ClosedPair == [open |-> closed, close |-> closed]

\* what an <input type="time"> hands to its onChange
EditorTimes ==
    {Time("0", "8", "0", "0"), Time("1", "2", "3", "0"), Time("1", "8", "0", "0")}

\* the texts the schema is tried on: times, an hour that does not exist, closed
HourTexts == EditorTimes \cup {Time("2", "5", "0", "0"), closed}

HourPairs == [open : HourTexts, close : HourTexts]

\* handleTimeChange(type, value); the two inputs are rendered while !isClosed
handleTimeChange(s, type, value) ==
    /\ Rendered(router[s], auth[s]) = "ConfigurationPanel"
    /\ ~timeInput[s].isClosed
    /\ LET newHours == [timeInput[s].hours EXCEPT ![type] = value] IN
       timeInput' = [timeInput EXCEPT ![s].hours = newHours,
                                      ![s].value = IF timeInput[s].isClosed
                                                   THEN JsonStringify(ClosedPair)
                                                   ELSE JsonStringify(newHours)]
    /\ UNCHANGED <<store, settingsVars, authVars, bootVars, uiVars, loginPage, env, upload,
                   authHook>>

\* the checkbox's onChange
ToggleClosed(s) ==
    /\ Rendered(router[s], auth[s]) = "ConfigurationPanel"
    /\ LET checked == ~timeInput[s].isClosed IN
       timeInput' = [timeInput EXCEPT ![s].isClosed = checked,
                                      ![s].value = IF checked
                                                   THEN JsonStringify(ClosedPair)
                                                   ELSE JsonStringify(timeInput[s].hours)]
    /\ UNCHANGED <<store, settingsVars, authVars, bootVars, uiVars, loginPage, env, upload,
                   authHook>>

\* openingHoursSchema.safeParse(data)
SafeParse(s, data) ==
    /\ timeInput' = [timeInput EXCEPT ![s].parsed =
                        [data |-> data, success |-> openingHoursSchema(data)]]
    /\ UNCHANGED <<store, settingsVars, authVars, bootVars, uiVars, loginPage, env, upload,
                   authHook>>

InitHours ==
    Scene(InitializedStore, {AuthAdmin.uid}, AuthAdmin.uid, TRUE, "needs-configuration",
          Unmounted, FALSE, RootPath)

NextHours ==
    \/ \E s \in Clients, type \in {"open", "close"}, value \in EditorTimes :
          handleTimeChange(s, type, value)
    \/ \E s \in Clients : ToggleClosed(s)
    \/ \E s \in Clients, data \in HourPairs : SafeParse(s, data)

SpecHours == InitHours /\ [][NextHours]_vars

\* a time of the day written HH:MM, and its minutes since midnight
IsClockTime(t) ==
    /\ Len(t) = 5
    /\ t[3] = ":"
    /\ \A k \in {1, 2, 4, 5} : t[k] \in DigitsUpTo(9)
    /\ 10 * DigitValue(t[1]) + DigitValue(t[2]) <= 23
    /\ 10 * DigitValue(t[4]) + DigitValue(t[5]) <= 59

ClockMinutes(t) ==
    60 * (10 * DigitValue(t[1]) + DigitValue(t[2])) + 10 * DigitValue(t[4]) + DigitValue(t[5])

\* C29: the schema accepts the pair closed/closed, rejects a pair with exactly
\* one closed, accepts two HH:MM times exactly when open is earlier than close;
\* and it accepts every value the day editor wrote that is closed/closed or has
\* open earlier than close
C29_HoursSchema ==
    \A s \in Clients :
        LET p == timeInput[s].parsed
            v == timeInput[s].value
        IN /\ p.data # NoValue =>
                /\ p.data = ClosedPair => p.success
                /\ ((p.data.open = closed) # (p.data.close = closed)) => ~p.success
                /\ (IsClockTime(p.data.open) /\ IsClockTime(p.data.close)) =>
                       (p.success <=> ClockMinutes(p.data.open) < ClockMinutes(p.data.close))
           /\ v # NoValue =>
                LET d == JsonParse(v) IN
                (\/ d = ClosedPair
                 \/ /\ IsClockTime(d.open) /\ IsClockTime(d.close)
                    /\ ClockMinutes(d.open) < ClockMinutes(d.close))
                    => openingHoursSchema(d)

(***************************************************************************)
(* ProtectedRoute: what it renders from the state of its useAuth().        *)
(***************************************************************************)
NoRole == "undefined"

\* requireRole?: 'super_admin' | 'admin'
RequireRoles == {NoRole, "super_admin", "admin"}

\* a bug: the role is not looked at
ProtectedRouteAnyRole(h, requireRole) ==
    IF h.isLoading THEN "loading"
    ELSE IF ~h.isAuthenticated \/ h.user = NoAdminUser THEN "redirecting"
    ELSE "children"

ProtectedRoute(h, requireRole) ==
    IF h.isLoading THEN "loading"
    ELSE IF ~h.isAuthenticated \/ h.user = NoAdminUser THEN "redirecting"
    ELSE IF requireRole # NoRole /\ h.user.role # requireRole THEN "access-denied"
    ELSE "children"

\* C30: ProtectedRoute renders its children exactly when loading has finished,
\* isAuthenticated is true, user is not null and no role is required or the
\* user's role is the required one; otherwise it renders the loading, the
\* redirecting or the access-denied screen
C30_ProtectedContent ==
    \A s \in Clients, requireRole \in RequireRoles :
        LET h == authHook[s]
            screen == ProtectedRoute(h, requireRole)
            allowed == /\ ~h.isLoading
                       /\ h.isAuthenticated
                       /\ h.user # NoAdminUser
                       /\ (requireRole = NoRole \/ h.user.role = requireRole)
        IN /\ screen = "children" <=> allowed
           /\ ~allowed => screen \in {"loading", "redirecting", "access-denied"}

\* C30 witness: a signed-in administrator, loading finished: the dashboard's
\* ProtectedRoute shows its children, one that requires the role admin does not
C30_Witness ==
    \E s \in Clients :
        /\ ~authHook[s].isLoading
        /\ authHook[s].isAuthenticated
        /\ authHook[s].user # NoAdminUser
        /\ ProtectedRoute(authHook[s], NoRole) = "children"
        /\ ProtectedRoute(authHook[s], "admin") = "access-denied"

====
